---- MODULE Spec2Model ----
(***************************************************************************)
(* Model of the vtgate TabletGateway (go/vt/vtgate/tabletgateway.go):      *)
(* the retry dispatcher withRetry, the default-collation atomic, the       *)
(* shuffler and the statistics aggregators.  The health check, the         *)
(* keyspace event watcher, the failover buffer, the balancer and the inner *)
(* query function are collaborators: what they return is an input.         *)
(***************************************************************************)
EXTENDS Integers, Sequences, FiniteSets, TLC

(***************************************************************************)
(* Bounds of the model.                                                    *)
(***************************************************************************)
\* largest value of the retry-count flag that is explored
MaxRetryCount == 2
\* number of tablet aliases of the fleet
MaxTablets == 2
\* number of concurrent callers of updateDefaultConnCollation (SpecCollation)
MaxUpdaters == 2
\* number of calls each concurrent caller makes (SpecCollation)
MaxUpdates == 2
\* length of the longest list handed to shuffleTablets (SpecShuffle)
MaxShuffled == 4
\* number of concurrent dispatches recording an attempt (SpecStats)
MaxRecorders == 3
\* number of requests that call the failover buffer (SpecBuffer)
MaxWaiters == 3
\* max_size of the failover buffer: the requests one shard can park
BufferSize == 2

(***************************************************************************)
(* Values.                                                                 *)
(***************************************************************************)
TabletTypes == {"PRIMARY", "REPLICA", "RDONLY"}
Keyspaces == {"ks1", "ks2"}
Shards == {"0"}
Targets == [Keyspace : Keyspaces, Shard : Shards, TabletType : TabletTypes]

localCell == "cell1"
Aliases == 1..MaxTablets
\* the cell, and the default connection collation, of the tablet with alias a
CellOf(a) == IF a % 2 = 1 THEN localCell ELSE "cell2"
CollationOf(a) == (a - 1) % 3

\* error values: nil is the empty sequence; an error is the sequence of its
\* layers, outermost wrapper first, each layer a message and the text of the
\* error it quotes ("" when it quotes none)
NoErr == << >>
Layer(code, msg, quoted) == [code |-> code, msg |-> msg, quoted |-> quoted]
\* vterrors.Errorf: a new error with a code and a message
Errorf(code, msg) == << Layer(code, msg, "") >>
\* vterrors.Wrapf: a message put in front of the wrapped error
Wrapf(e, msg, quoted) == << Layer("", msg, quoted) >> \o e
\* the code of an error is the code of its innermost layer
Code(e) == IF e = NoErr THEN "OK" ELSE e[Len(e)].code

\* the text of an error (fmt %v): the layers joined by ": "; nil prints <nil>
RECURSIVE ErrString(_)
ErrString(e) ==
  IF e = NoErr THEN "<nil>"
  ELSE IF Len(e) = 1 THEN e[1].msg \o e[1].quoted
  ELSE e[1].msg \o e[1].quoted \o ": " \o ErrString(Tail(e))

\* topoproto.TabletTypeLString: the lower-case name of a tablet type
TabletTypeLString(t) ==
  CASE t = "PRIMARY" -> "primary"
    [] t = "REPLICA" -> "replica"
    [] t = "RDONLY" -> "rdonly"

\* topoproto.TabletAliasString: cell-uid
TabletAliasString(a) == CellOf(a) \o "-" \o ToString(a)

\* the statistics key of a target
StatsKey(t) == t.Keyspace \o "/" \o t.Shard \o "/" \o t.TabletType

\* the errors withRetry makes
ErrTransactionOnReplica ==
  Errorf("INTERNAL", "tabletGateway's query service can only be used for non-transactional queries on replicas")
ErrTabletTypeNotAllowed(t) ==
  Errorf("FAILED_PRECONDITION", "requested tablet type " \o t.TabletType \o " is not part of the allowed tablet types for this vtgate")
ErrResharding == Errorf("CLUSTER_EVENT", "current keyspace is being resharded")
ErrReparent == Errorf("CLUSTER_EVENT", "primary is not serving, there may be a reparent operation in progress")
ErrInconsistent ==
  Errorf("UNAVAILABLE", "inconsistent state detected, primary is serving but initially found no available tablet")
ErrNoHealthyTablet(t) ==
  Errorf("UNAVAILABLE", "no healthy tablet available for '" \o StatsKey(t) \o "'")
VT14002 == Errorf("UNAVAILABLE", "VT14002: no available connection")
VT14003(a) == Errorf("UNAVAILABLE", "VT14003: no connection for tablet " \o TabletAliasString(a))
BufferWrapMsg == "failed to automatically buffer and retry failed request during failover. original err: "

\* context.DeadlineExceeded and context.Canceled, which a call under a
\* context returns when the deadline passes or the caller cancels, and an
\* error of the topology server
DeadlineExceeded == Errorf("DEADLINE_EXCEEDED", "context deadline exceeded")
Canceled == Errorf("CANCELED", "context canceled")
ErrTopo == Errorf("NOT_FOUND", "node doesn't exist: keyspaces")

\* what the failover buffer can end a wait with
ErrBufferFull == Errorf("UNAVAILABLE", "primary buffer is full")
ErrWindowExpired == Errorf("UNAVAILABLE", "buffer window expired")
ErrShuttingDown == Errorf("UNAVAILABLE", "buffer is shutting down")
ErrCanceled == Errorf("UNAVAILABLE", "context was canceled before failover finished")
BufferErrors == { ErrBufferFull, ErrWindowExpired, ErrShuttingDown, ErrCanceled }
\* WaitForFailoverEnd returns (retryDone, err): each may be nil
BufferOutcomes == [retryDone : BOOLEAN, err : {NoErr} \cup BufferErrors]

\* what inner returns: (canRetry, err).  A nil error is never retryable.
NetErr == Errorf("UNAVAILABLE", "connection refused")
NotServingErr == Errorf("FAILED_PRECONDITION", "operation not allowed in state NOT_SERVING")
AppErr == Errorf("INVALID_ARGUMENT", "syntax error")
InnerOutcomes ==
  { [canRetry |-> FALSE, err |-> NoErr],
    [canRetry |-> FALSE, err |-> AppErr],
    [canRetry |-> FALSE, err |-> NetErr],
    [canRetry |-> TRUE, err |-> NetErr],
    [canRetry |-> TRUE, err |-> NotServingErr] }

\* a TabletHealth of a snapshot of the health check
TabletHealth(a, conn) ==
  [alias |-> a, cell |-> CellOf(a), conn |-> conn, collation |-> CollationOf(a)]
\* the snapshot listing the aliases of S in order, connected when in C
RECURSIVE SnapshotOf(_, _)
SnapshotOf(S, C) ==
  IF S = {} THEN << >>
  ELSE LET a == CHOOSE x \in S : \A y \in S : x <= y
       IN << TabletHealth(a, a \in C) >> \o SnapshotOf(S \ {a}, C)
HealthySnapshots == { SnapshotOf(S, C) : S \in SUBSET Aliases, C \in SUBSET Aliases }

\* the aliases of the tablets of ts that are in the given cell
LocalAliases(cell, ts) == { ts[k].alias : k \in { m \in 1..Len(ts) : ts[m].cell = cell } }

\* the nil *TabletHealth
NoTablet == [alias |-> 0, cell |-> "", conn |-> FALSE, collation |-> 0]

(***************************************************************************)
(* The pieces of withRetry.                                                *)
(***************************************************************************)
\* a comparison turned around: transactions on the primary are refused
TransactionOnReplica_Inverted(inTx, t) == inTx /\ t.TabletType = "PRIMARY"

\* line 285: a transaction can only go to the primary
TransactionOnReplica(inTx, t) == inTx /\ t.TabletType # "PRIMARY"

\* the length test left out: an empty allow-list refuses every tablet type
TabletTypeAllowed_EmptyRefuses(allowed, t) == t.TabletType \in allowed

\* lines 292-303: an empty allow-list allows every tablet type
TabletTypeAllowed(allowed, t) == allowed = {} \/ t.TabletType \in allowed

\* lines 284-303: the error the pre-flight checks return, nil when they pass
Preflight(inTx, t, allowed) ==
  IF TransactionOnReplica(inTx, t) THEN ErrTransactionOnReplica
  ELSE IF ~TabletTypeAllowed(allowed, t) THEN ErrTabletTypeNotAllowed(t)
  ELSE NoErr

\* the first attempt is counted as a retry
LoopCond_NoFirstAttempt(k, rc) == k < rc
\* line 306: the loop condition
LoopCond(k, rc) == k < rc + 1

\* the transaction test left out
ShouldCheckBuffer_Transactions(buf, once, inTx, t) ==
  buf /\ ~once /\ t.TabletType = "PRIMARY"

\* line 311: whether this iteration asks the buffer
ShouldCheckBuffer(buf, once, inTx, t) ==
  buf /\ ~once /\ ~inTx /\ t.TabletType = "PRIMARY"

\* the flag never set
BufferedOnceAfter_NeverSet(once, rd) == once

\* lines 316-321: bufferedOnce after a wait that returned retryDone rd
BufferedOnceAfter(once, rd) == IF rd # 0 THEN TRUE ELSE once

\* the callback dropped
DeferAfter_Dropped(ds, rd) == ds

\* lines 316-319: the deferred calls after a wait that returned retryDone rd
DeferAfter(ds, rd) == IF rd # 0 THEN << rd >> \o ds ELSE ds

\* the previous error left out of the message
WrapBufferErr_NoOriginal(bufferErr, prev) == Wrapf(bufferErr, BufferWrapMsg, "")

\* lines 324-326: the buffer's error wrapped, quoting the previous error
WrapBufferErr(bufferErr, prev) == Wrapf(bufferErr, BufferWrapMsg, ErrString(prev))

\* what the keyspace event watcher would answer about the target: whether it
\* is being resharded, whether buffering should start, whether it sees a primary
WatcherViews == [resharding : BOOLEAN, shouldBuffer : BOOLEAN, primary : BOOLEAN]
\* no watcher, nothing to answer
NoAnswers == [resharding |-> FALSE, shouldBuffer |-> FALSE, primary |-> FALSE]
ViewsOf(kv) == IF kv THEN WatcherViews ELSE {NoAnswers}

\* the watcher asked for every tablet type
WatcherConsulted_AnyType(kv, t) == kv
\* line 337: the watcher is asked only when there is one and the target is PRIMARY
WatcherConsulted(kv, t) == kv /\ t.TabletType = "PRIMARY"

\* line 338: TargetIsBeingResharded is asked first
BeingResharded(kv, t, v) == WatcherConsulted(kv, t) /\ v.resharding

\* the reparenting looked at without regard to the resharding
StartBuffering_First(kv, t, v) == WatcherConsulted(kv, t) /\ v.shouldBuffer
\* lines 343-344: ShouldStartBufferingForTarget is asked when the target is
\* not being resharded
StartBuffering(kv, t, v) == WatcherConsulted(kv, t) /\ ~v.resharding /\ v.shouldBuffer

\* the primary the watcher sees is not looked at
PrimaryButNoTablet_Ignored(kv, t, v) == FALSE
\* line 351: the watcher sees a primary, and neither of the above
PrimaryButNoTablet(kv, t, v) ==
  WatcherConsulted(kv, t) /\ ~v.resharding /\ ~v.shouldBuffer /\ v.primary

\* the list of balancer keyspaces not looked at
UseBalancer_AllKeyspaces(enabled, keyspaces, t) == enabled
\* lines 364-367: whether the balancer picks the tablet
UseBalancer(enabled, keyspaces, t) ==
  IF enabled /\ keyspaces # {} THEN t.Keyspace \in keyspaces ELSE enabled

\* lines 370-375: the tablets not tried before
FilterInvalid(ts, invalid) ==
  IF invalid # {} THEN SelectSeq(ts, LAMBDA x : x.alias \notin invalid) ELSE ts

\* balancer.Pick: one of the candidates, or none
Pick(ts) == {NoTablet} \cup { ts[k] : k \in 1..Len(ts) }

\* the entry at b copied over the entry at a, which is lost
Swap_Overwrite(ts, a, b) == [ts EXCEPT ![a] = ts[b]]
\* lines 463, 466: the entries at a and b change places
Swap(ts, a, b) == [ts EXCEPT ![a] = ts[b], ![b] = ts[a]]

\* lines 451-471: every list shuffleTablets can leave, the random index j
\* ranging over head..tail in each of the n-1 rounds
RECURSIVE ShuffleFrom(_, _, _, _, _)
ShuffleFrom(cell, ts, head, tail, rounds) ==
  IF rounds <= 0 THEN {ts}
  ELSE UNION { IF ts[j].cell = cell
               THEN ShuffleFrom(cell, Swap(ts, head, j), head + 1, tail, rounds - 1)
               ELSE ShuffleFrom(cell, Swap(ts, tail, j), head, tail - 1, rounds - 1)
               : j \in head..tail }
\* the same-cell tablets put at the back of the list
shuffleTablets_LocalLast(cell, ts) ==
  { [k \in 1..Len(sh) |-> sh[Len(sh) + 1 - k]] :
      sh \in ShuffleFrom(cell, ts, 1, Len(ts), Len(ts) - 1) }
shuffleTablets(cell, ts) == ShuffleFrom(cell, ts, 1, Len(ts), Len(ts) - 1)

\* the tablets tried before are not skipped
FirstValid_NoSkip(ts, invalid) == ts[1]

\* lines 383-388: the first tablet not tried before, nil when there is none
FirstValid(ts, invalid) ==
  IF \E k \in 1..Len(ts) : ts[k].alias \notin invalid
  THEN ts[CHOOSE k \in 1..Len(ts) :
            /\ ts[k].alias \notin invalid
            /\ \A m \in 1..(k - 1) : ts[m].alias \in invalid]
  ELSE NoTablet

\* the error returned as it is
NewShardError_Bare(in, t) == in

\* lines 498-506: the error with the target put in front, nil stays nil
NewShardError(in, t) ==
  IF in = NoErr THEN NoErr
  ELSE Wrapf(in, "target: " \o t.Keyspace \o "." \o t.Shard \o "."
                   \o TabletTypeLString(t.TabletType), "")

\* line 484: CompareAndSwap(0, v) succeeds when the stored value is 0
CasSucceeds(stored, v) == stored = 0
\* a store in place of the compare-and-swap
CasStore_Store(stored, v) == IF v # 0 THEN v ELSE stored
CasStore(stored, v) == IF CasSucceeds(stored, v) THEN v ELSE stored
\* line 487: the warning is asked for when the stored value differs
CollationDiffers(stored, v) == stored # v

\* TabletStatusAggregator.UpdateQueryInfo: the counters after one query
UpdateQueryInfo(aggr, hasError) ==
  [QueryCount |-> aggr.QueryCount + 1,
   QueryError |-> aggr.QueryError + (IF hasError THEN 1 ELSE 0)]
NewTabletStatusAggregator == [QueryCount |-> 0, QueryError |-> 0]

\* line 439: gw.mu can be taken when nobody holds it
CanLock_Always(holder) == TRUE
CanLock(holder) == holder = 0

\* lines 441-444: the aggregator the map holds for the key, 0 when absent
LookupAggregator(aggrs, key) == IF key \in DOMAIN aggrs THEN aggrs[key] ELSE 0

\* lines 446-448: a new aggregator is made and put in the map under the key;
\* heap lists the aggregators made so far, an aggregator being its index
CreateAggregator(aggrs, heap, key) ==
  [map |-> [k \in DOMAIN aggrs \cup {key} |-> IF k = key THEN Len(heap) + 1 ELSE aggrs[k]],
   heap |-> Append(heap, NewTabletStatusAggregator),
   aggr |-> Len(heap) + 1]

\* lines 435-449: the map, the aggregators and the aggregator of the key
\* after it was looked up, and created first when absent
getStatsAggregator(aggrs, heap, key) ==
  IF LookupAggregator(aggrs, key) # 0
  THEN [map |-> aggrs, heap |-> heap, aggr |-> LookupAggregator(aggrs, key)]
  ELSE CreateAggregator(aggrs, heap, key)

\* lines 429-433: the map and the aggregators after one query of the target
\* was recorded
updateStats(aggrs, heap, t, e) ==
  LET g == getStatsAggregator(aggrs, heap, StatsKey(t))
  IN [map |-> g.map,
      heap |-> [g.heap EXCEPT ![g.aggr] = UpdateQueryInfo(@, e # NoErr)]]

(***************************************************************************)
(* State.                                                                  *)
(***************************************************************************)
VARIABLES
  \* flags and fields set when the gateway is made
  retryCount, buffer, kev, allowedTabletTypes, balancerEnabled, balancerKeyspaces,
  \* the gateway's shared state
  defaultConnCollation, statusAggregators,
  \* the aggregators made so far, which the map points to, and the holder of gw.mu
  aggregators, mu,
  \* one call of withRetry: where it is, its arguments and its locals
  pc, target, inTransaction, i, err, invalidTablets, bufferedOnce, deferred,
  th, result,
  \* what the call did to its collaborators: the number of calls of each
  \* operation, the inner calls per tablet, the last buffer wait and the last
  \* inner call, the retryDone callbacks returned and invoked, how the loop ended
  calls, attempts, lastBuffer, lastInner, allCanRetry, rdReturned, rdInvoked, exit,
  \* the same-cell tablets of the snapshot the health check returned, while
  \* the iteration chooses from it
  localHealthy,
  \* the aliases of that snapshot; the watcher's answers at the empty lookup
  \* the dispatch has just made; whether every lookup so far was empty and
  \* explained by a resharding or a reparenting
  healthy, emptyLookup, allClusterEvent,
  \* concurrent callers of updateDefaultConnCollation: position, argument, calls made
  upc, uval, ucalls,
  \* the first non-zero collation handed to the atomic, and the warnings asked for
  firstObserved, warnings,
  \* shuffleTablets on its own: the cell and the list it is called with, the
  \* list it leaves, whether it has run
  shCell, shIn, shOut, shDone,
  \* concurrent dispatches whose inner has returned: where each is in
  \* updateStats, its target, whether inner failed, the aggregator it got;
  \* and, per key, the attempts completed and the attempts that failed
  rpc, rtarget, rerr, raggr, completions,
  \* a reader of CacheStatus: where it is, and the list its last call returned
  csPc, csRes,
  \* the failover buffer: per shard its mode, its queue of parked requests
  \* and whether the window deadline has passed; whether it was shut down
  bufMode, bufQueue, bufExpired, bufShutdown,
  \* whether the goroutine of setupBuffering still listens for keyspace
  \* events, and where Close is
  listening, closePc,
  \* whether the goroutine handed an event to the buffer after Close returned
  handledAfterClose,
  \* the requests calling WaitForFailoverEnd: where each is, the shard it
  \* waits in, what the call returned
  wpc, wshard, wout,
  \* WaitForTablets: where it is, the tablet types it is called with, its
  \* named result err, the calls it made, the error the last of them ended
  \* with, whether it warned of degraded mode, what it returned
  wtPc, tabletTypesToWait, wtErr, wtCalled, wtLast, wtWarned, wtResult

config == << retryCount, buffer, kev, allowedTabletTypes, balancerEnabled, balancerKeyspaces >>
shared == << defaultConnCollation, statusAggregators, aggregators, mu, firstObserved,
            warnings >>
locals == << target, inTransaction, i, err, invalidTablets, bufferedOnce, deferred,
             th, result >>
ghosts == << calls, attempts, lastBuffer, lastInner, allCanRetry, rdReturned, rdInvoked,
             exit >>
updaters == << upc, uval, ucalls >>
shuffler == << shCell, shIn, shOut, shDone >>
\* the state of the parts checked on their own, which a dispatch leaves alone
recorders == << rpc, rtarget, rerr, raggr, completions, csPc, csRes >>
failover == << bufMode, bufQueue, bufExpired, bufShutdown, listening, closePc,
              handledAfterClose, wpc, wshard, wout >>
barrier == << wtPc, tabletTypesToWait, wtErr, wtCalled, wtLast, wtWarned, wtResult >>
aside == << shuffler, recorders, failover, barrier >>
probes == << healthy, emptyLookup, allClusterEvent >>
vars == << config, shared, pc, locals, ghosts, localHealthy, probes, updaters, aside >>

Updaters == 1..MaxUpdaters
CollationIDs == 0..2
RetryCounts == (-1)..MaxRetryCount
AllowLists == { {}, {"REPLICA"} }
BalancerKeyspaceLists == { {}, {"ks1"} }

\* the operations on collaborators that are counted
Ops == { "iter", "WaitForFailoverEnd", "GetHealthyTabletStats", "TargetIsBeingResharded",
         "ShouldStartBufferingForTarget", "Pick", "shuffleTablets",
         "updateDefaultConnCollation", "inner", "updateStats", "retryDone" }
\* the counts after each operation of ops was called once more
Called(c, ops) == [o \in Ops |-> IF o \in ops THEN c[o] + 1 ELSE c[o]]

NoBufferWait == [called |-> FALSE, retryDone |-> 0, err |-> NoErr, prev |-> NoErr]
NoInnerCall == [called |-> FALSE, alias |-> 0, canRetry |-> FALSE, err |-> NoErr]
\* the last step was not an empty lookup
NoLookup == [empty |-> FALSE, view |-> NoAnswers]
EmptyLookup(v) == [empty |-> TRUE, view |-> v]

\* the event watcher made whether or not buffering is enabled
InitGateway_WatcherAnyway ==
  /\ retryCount \in RetryCounts
  /\ buffer \in BOOLEAN
  /\ kev \in BOOLEAN
  /\ allowedTabletTypes \in AllowLists
  /\ balancerEnabled \in BOOLEAN
  /\ balancerKeyspaces \in BalancerKeyspaceLists
  /\ (~balancerEnabled => balancerKeyspaces = {})
  /\ defaultConnCollation = 0
  /\ statusAggregators = << >>
  /\ aggregators = << >>
  /\ mu = 0
  /\ pc = "idle"
  /\ target = [Keyspace |-> "ks1", Shard |-> "0", TabletType |-> "PRIMARY"]
  /\ inTransaction = FALSE
  /\ i = 0
  /\ err = NoErr
  /\ invalidTablets = {}
  /\ bufferedOnce = FALSE
  /\ deferred = << >>
  /\ th = NoTablet
  /\ result = NoErr
  /\ calls = [o \in Ops |-> 0]
  /\ attempts = [a \in Aliases |-> 0]
  /\ lastBuffer = NoBufferWait
  /\ lastInner = NoInnerCall
  /\ allCanRetry = TRUE
  /\ rdReturned = {}
  /\ rdInvoked = << >>
  /\ exit = "none"
  /\ localHealthy = {}
  /\ healthy = {}
  /\ emptyLookup = NoLookup
  /\ allClusterEvent = TRUE
  /\ upc = [u \in Updaters |-> "idle"]
  /\ uval = [u \in Updaters |-> 0]
  /\ ucalls = [u \in Updaters |-> 0]
  /\ firstObserved = 0
  /\ warnings = 0

\* lines 112-138, 140-167: the gateway as NewTabletGateway leaves it; the
\* event watcher is made exactly when the buffer is
InitGateway ==
  /\ retryCount \in RetryCounts
  /\ buffer \in BOOLEAN
  /\ kev = buffer
  /\ allowedTabletTypes \in AllowLists
  /\ balancerEnabled \in BOOLEAN
  /\ balancerKeyspaces \in BalancerKeyspaceLists
  /\ (~balancerEnabled => balancerKeyspaces = {})
  /\ defaultConnCollation = 0
  /\ statusAggregators = << >>
  /\ aggregators = << >>
  /\ mu = 0
  /\ pc = "idle"
  /\ target = [Keyspace |-> "ks1", Shard |-> "0", TabletType |-> "PRIMARY"]
  /\ inTransaction = FALSE
  /\ i = 0
  /\ err = NoErr
  /\ invalidTablets = {}
  /\ bufferedOnce = FALSE
  /\ deferred = << >>
  /\ th = NoTablet
  /\ result = NoErr
  /\ calls = [o \in Ops |-> 0]
  /\ attempts = [a \in Aliases |-> 0]
  /\ lastBuffer = NoBufferWait
  /\ lastInner = NoInnerCall
  /\ allCanRetry = TRUE
  /\ rdReturned = {}
  /\ rdInvoked = << >>
  /\ exit = "none"
  /\ localHealthy = {}
  /\ healthy = {}
  /\ emptyLookup = NoLookup
  /\ allClusterEvent = TRUE
  /\ upc = [u \in Updaters |-> "idle"]
  /\ uval = [u \in Updaters |-> 0]
  /\ ucalls = [u \in Updaters |-> 0]
  /\ firstObserved = 0
  /\ warnings = 0

\* shuffleTablets not called
InitShuffler ==
  /\ shCell = localCell
  /\ shIn = << >>
  /\ shOut = << >>
  /\ shDone = FALSE

Recorders == 1..MaxRecorders
\* the targets the concurrent dispatches record: two keys
RecordedTargets == { t \in Targets : t.Keyspace = "ks1" /\ t.TabletType # "RDONLY" }
NoCompletions == [n |-> 0, failed |-> 0]

\* no dispatch is recording
InitRecorders ==
  /\ rpc = [r \in Recorders |-> "idle"]
  /\ rtarget = [r \in Recorders |-> CHOOSE t \in RecordedTargets : t.TabletType = "PRIMARY"]
  /\ rerr = [r \in Recorders |-> FALSE]
  /\ raggr = [r \in Recorders |-> 0]
  /\ completions = [k \in { StatsKey(t) : t \in RecordedTargets } |-> NoCompletions]
  /\ csPc = "idle"
  /\ csRes = << >>

Waiters == 1..MaxWaiters
\* the (keyspace, shard) pairs, each with a buffer of its own
BufferShards == { << k, sh >> : k \in Keyspaces, sh \in Shards }
NoOutcome == [retryDone |-> FALSE, err |-> NoErr]
\* the shard of a request that is not waiting
NoShard == << "", "" >>

\* the buffer as buffer.New leaves it, the goroutine listening, no request yet
InitFailover ==
  /\ bufMode = [sh \in BufferShards |-> "passthrough"]
  /\ bufQueue = [sh \in BufferShards |-> << >>]
  /\ bufExpired = [sh \in BufferShards |-> FALSE]
  /\ bufShutdown = FALSE
  /\ listening = buffer
  /\ closePc = "open"
  /\ handledAfterClose = FALSE
  /\ wpc = [w \in Waiters |-> "idle"]
  /\ wshard = [w \in Waiters |-> NoShard]
  /\ wout = [w \in Waiters |-> NoOutcome]

\* WaitForTablets not called
InitBarrier ==
  /\ wtPc = "idle"
  /\ tabletTypesToWait = {}
  /\ wtErr = NoErr
  /\ wtCalled = {}
  /\ wtLast = NoErr
  /\ wtWarned = FALSE
  /\ wtResult = NoErr

Init == InitGateway /\ InitShuffler /\ InitRecorders /\ InitFailover /\ InitBarrier

(***************************************************************************)
(* withRetry, step by step.                                                *)
(***************************************************************************)
\* lines 281-305: the call, its pre-flight checks and its locals
WithRetry(t, inTx) ==
  /\ pc = "idle"
  /\ target' = t
  /\ inTransaction' = inTx
  /\ LET e == Preflight(inTx, t, allowedTabletTypes)
     IN IF e # NoErr
        THEN result' = e /\ pc' = "done" /\ exit' = "preflight"
        ELSE result' = result /\ pc' = "loop" /\ exit' = exit
  /\ i' = 0
  /\ err' = NoErr
  /\ invalidTablets' = {}
  /\ bufferedOnce' = FALSE
  /\ localHealthy' = {}
  /\ healthy' = {}
  /\ emptyLookup' = NoLookup
  /\ allClusterEvent' = TRUE
  /\ UNCHANGED << config, aside, shared, deferred,  th, calls, attempts, lastBuffer,
                  lastInner, allCanRetry, rdReturned, rdInvoked, updaters >>

\* line 306: the loop ends when the retries are used up
LoopExit ==
  /\ pc = "loop"
  /\ ~LoopCond(i, retryCount)
  /\ pc' = "return"
  /\ exit' = "exhausted"
  /\ emptyLookup' = NoLookup
  /\ UNCHANGED << config, aside, localHealthy, healthy, allClusterEvent, shared, locals, calls, attempts, lastBuffer, lastInner,
                  allCanRetry, rdReturned, rdInvoked, updaters >>

\* lines 315-328: what the dispatch does with o, which WaitForFailoverEnd
\* returned: a retryDone is deferred and remembered, an error ends the loop
BufferReturned(o) ==
  /\ LET rd == IF o.retryDone THEN i + 1 ELSE 0
     IN /\ lastBuffer' = [called |-> TRUE, retryDone |-> rd, err |-> o.err, prev |-> err]
        /\ rdReturned' = IF rd # 0 THEN rdReturned \cup {rd} ELSE rdReturned
        /\ deferred' = DeferAfter(deferred, rd)
        /\ bufferedOnce' = BufferedOnceAfter(bufferedOnce, rd)
  /\ IF o.err # NoErr
     THEN err' = WrapBufferErr(o.err, err) /\ pc' = "return" /\ exit' = "buffer"
     ELSE err' = err /\ pc' = "lookup" /\ exit' = exit

\* lines 311-329: the buffer is asked; o is what WaitForFailoverEnd returns
BufferWait(o) ==
  /\ pc = "loop"
  /\ LoopCond(i, retryCount)
  /\ ShouldCheckBuffer(buffer, bufferedOnce, inTransaction, target)
  /\ BufferReturned(o)
  /\ calls' = Called(calls, {"iter", "WaitForFailoverEnd"})
  /\ emptyLookup' = NoLookup
  /\ UNCHANGED << config, aside, localHealthy, healthy, allClusterEvent, shared, target, inTransaction, i, invalidTablets,  th,
                  result, attempts, lastInner, allCanRetry, rdInvoked, updaters >>

\* line 311: the buffer is not asked
BufferSkip ==
  /\ pc = "loop"
  /\ LoopCond(i, retryCount)
  /\ ~ShouldCheckBuffer(buffer, bufferedOnce, inTransaction, target)
  /\ calls' = Called(calls, {"iter"})
  /\ pc' = "lookup"
  /\ emptyLookup' = NoLookup
  /\ UNCHANGED << config, aside, localHealthy, healthy, allClusterEvent, shared, locals, attempts, lastBuffer, lastInner, allCanRetry,
                  rdReturned, rdInvoked, exit, updaters >>

\* what every step of an empty lookup leaves alone
LookupFrame ==
  UNCHANGED << config, aside, localHealthy, healthy, shared, target, inTransaction, invalidTablets, bufferedOnce,
               deferred,  th, result, attempts, lastBuffer, lastInner,
               allCanRetry, rdReturned, rdInvoked, updaters >>

\* lines 331-342: no healthy tablet, and the target is being resharded
LookupResharding(v) ==
  /\ pc = "lookup"
  /\ BeingResharded(kev, target, v)
  /\ calls' = Called(calls, {"GetHealthyTabletStats", "TargetIsBeingResharded"})
  /\ err' = ErrResharding
  /\ i' = i + 1
  /\ pc' = "loop"
  /\ exit' = exit
  /\ emptyLookup' = EmptyLookup(v)
  /\ UNCHANGED allClusterEvent
  /\ LookupFrame

\* lines 343-347: no healthy tablet, and the watcher says to buffer
LookupReparent(v) ==
  /\ pc = "lookup"
  /\ StartBuffering(kev, target, v)
  /\ calls' = Called(calls, {"GetHealthyTabletStats", "TargetIsBeingResharded",
                             "ShouldStartBufferingForTarget"})
  /\ err' = ErrReparent
  /\ i' = i + 1
  /\ pc' = "loop"
  /\ exit' = exit
  /\ emptyLookup' = EmptyLookup(v)
  /\ UNCHANGED allClusterEvent
  /\ LookupFrame

\* lines 348-354: no healthy tablet, but the watcher sees a primary
LookupInconsistent(v) ==
  /\ pc = "lookup"
  /\ PrimaryButNoTablet(kev, target, v)
  /\ calls' = Called(calls, {"GetHealthyTabletStats", "TargetIsBeingResharded",
                             "ShouldStartBufferingForTarget"})
  /\ err' = ErrInconsistent
  /\ i' = i + 1
  /\ pc' = "loop"
  /\ exit' = exit
  /\ emptyLookup' = EmptyLookup(v)
  /\ allClusterEvent' = FALSE
  /\ LookupFrame

\* lines 337-359: no healthy tablet and nothing explains it: fail fast.
\* The watcher, when asked, saw no resharding, no reason to buffer, no primary.
LookupNoTablet(v) ==
  /\ pc = "lookup"
  /\ ~BeingResharded(kev, target, v)
  /\ ~StartBuffering(kev, target, v)
  /\ ~PrimaryButNoTablet(kev, target, v)
  /\ calls' = Called(calls,
       IF WatcherConsulted(kev, target)
       THEN {"GetHealthyTabletStats", "TargetIsBeingResharded",
             "ShouldStartBufferingForTarget"}
       ELSE {"GetHealthyTabletStats"})
  /\ err' = ErrNoHealthyTablet(target)
  /\ i' = i
  /\ pc' = "return"
  /\ exit' = "notablet"
  /\ emptyLookup' = EmptyLookup(v)
  /\ allClusterEvent' = FALSE
  /\ LookupFrame

SelectFrame ==
  UNCHANGED << config, aside, shared, target, inTransaction, i, err, invalidTablets,
               bufferedOnce, deferred, result, attempts, lastBuffer, lastInner,
               allCanRetry, rdReturned, rdInvoked, exit, updaters >>

\* lines 331, 368-377: the health check returns the healthy tablets ts, and
\* the balancer picks among those not tried before
SelectBalancer(ts) ==
  /\ pc = "lookup"
  /\ ts # << >>
  /\ localHealthy' = LocalAliases(localCell, ts)
  /\ healthy' = { ts[k].alias : k \in 1..Len(ts) }
  /\ allClusterEvent' = FALSE
  /\ UNCHANGED emptyLookup
  /\ UseBalancer(balancerEnabled, balancerKeyspaces, target)
  /\ th' \in Pick(FilterInvalid(ts, invalidTablets))
  /\ calls' = Called(calls, {"GetHealthyTabletStats", "Pick"})
  /\ pc' = "chosen"
  /\ SelectFrame

\* lines 331, 379-389: the health check returns the healthy tablets ts, they
\* are shuffled and the first one not tried before is taken
SelectShuffle(ts) ==
  /\ pc = "lookup"
  /\ ts # << >>
  /\ localHealthy' = LocalAliases(localCell, ts)
  /\ healthy' = { ts[k].alias : k \in 1..Len(ts) }
  /\ allClusterEvent' = FALSE
  /\ UNCHANGED emptyLookup
  /\ ~UseBalancer(balancerEnabled, balancerKeyspaces, target)
  /\ th' \in { FirstValid(sh, invalidTablets) : sh \in shuffleTablets(localCell, ts) }
  /\ calls' = Called(calls, {"GetHealthyTabletStats", "shuffleTablets"})
  /\ pc' = "chosen"
  /\ SelectFrame

\* the error of the last attempt overwritten
NoCandidate_Overrides ==
  /\ pc = "chosen"
  /\ th = NoTablet
  /\ err' = VT14002
  /\ pc' = "return"
  /\ exit' = "nocandidate"
  /\ localHealthy' = {}
  /\ healthy' = {}
  /\ UNCHANGED << emptyLookup, allClusterEvent >>
  /\ UNCHANGED << config, aside, shared, target, inTransaction, i, invalidTablets,
                  bufferedOnce, deferred,  th, result, calls, attempts,
                  lastBuffer, lastInner, allCanRetry, rdReturned, rdInvoked, updaters >>

\* lines 391-397: no tablet is left; the last error is kept
NoCandidate ==
  /\ pc = "chosen"
  /\ th = NoTablet
  /\ err' = IF err = NoErr THEN VT14002 ELSE err
  /\ pc' = "return"
  /\ exit' = "nocandidate"
  /\ localHealthy' = {}
  /\ healthy' = {}
  /\ UNCHANGED << emptyLookup, allClusterEvent >>
  /\ UNCHANGED << config, aside, shared, target, inTransaction, i, invalidTablets,
                  bufferedOnce, deferred,  th, result, calls, attempts,
                  lastBuffer, lastInner, allCanRetry, rdReturned, rdInvoked, updaters >>

\* the iteration not counted
ConnNotFound_NotCounted ==
  /\ pc = "chosen"
  /\ th # NoTablet
  /\ ~th.conn
  /\ err' = VT14003(th.alias)
  /\ invalidTablets' = invalidTablets \cup {th.alias}
  /\ i' = i
  /\ pc' = "loop"
  /\ localHealthy' = {}
  /\ healthy' = {}
  /\ UNCHANGED << emptyLookup, allClusterEvent >>
  /\ UNCHANGED << config, aside, shared, target, inTransaction, bufferedOnce, deferred,
                  th, result, ghosts, updaters >>

\* lines 399-405: the chosen tablet has no connection
ConnNotFound ==
  /\ pc = "chosen"
  /\ th # NoTablet
  /\ ~th.conn
  /\ err' = VT14003(th.alias)
  /\ invalidTablets' = invalidTablets \cup {th.alias}
  /\ i' = i + 1
  /\ pc' = "loop"
  /\ localHealthy' = {}
  /\ healthy' = {}
  /\ UNCHANGED << emptyLookup, allClusterEvent >>
  /\ UNCHANGED << config, aside, shared, target, inTransaction, bufferedOnce, deferred,
                   th, result, ghosts, updaters >>

\* lines 407, 484-486: updateDefaultConnCollation, its compare-and-swap
UpdateCollationCas ==
  /\ pc = "chosen"
  /\ th # NoTablet
  /\ th.conn
  /\ calls' = Called(calls, {"updateDefaultConnCollation"})
  /\ defaultConnCollation' = CasStore(defaultConnCollation, th.collation)
  /\ firstObserved' = IF firstObserved = 0 THEN th.collation ELSE firstObserved
  /\ pc' = IF CasSucceeds(defaultConnCollation, th.collation) THEN "inner" ELSE "collation"
  /\ localHealthy' = {}
  /\ healthy' = {}
  /\ UNCHANGED << emptyLookup, allClusterEvent >>
  /\ UNCHANGED << config, aside, statusAggregators, aggregators, mu, warnings, locals, attempts, lastBuffer,
                  lastInner, allCanRetry, rdReturned, rdInvoked, exit, updaters >>

\* lines 487-489: updateDefaultConnCollation, its load and comparison
UpdateCollationLoad ==
  /\ pc = "collation"
  /\ warnings' = IF CollationDiffers(defaultConnCollation, th.collation)
                 THEN warnings + 1 ELSE warnings
  /\ pc' = "inner"
  /\ UNCHANGED << config, aside, localHealthy, probes, defaultConnCollation, statusAggregators, aggregators, mu, firstObserved,
                  locals, ghosts, updaters >>

\* the tablet of an attempt that can be retried is not marked
CallInner_NotMarked(o) ==
  /\ pc = "inner"
  /\ err' = o.err
  /\ statusAggregators' = updateStats(statusAggregators, aggregators, target, o.err).map
  /\ aggregators' = updateStats(statusAggregators, aggregators, target, o.err).heap
  /\ calls' = Called(calls, {"inner", "updateStats"})
  /\ attempts' = [attempts EXCEPT ![th.alias] = @ + 1]
  /\ lastInner' = [called |-> TRUE, alias |-> th.alias, canRetry |-> o.canRetry,
                   err |-> o.err]
  /\ allCanRetry' = (allCanRetry /\ o.canRetry)
  /\ invalidTablets' = invalidTablets
  /\ IF o.canRetry
     THEN i' = i + 1 /\ pc' = "loop" /\ exit' = exit
     ELSE i' = i /\ pc' = "return" /\ exit' = "final"
  /\ UNCHANGED << config, aside, localHealthy, probes, defaultConnCollation, mu, firstObserved,
                  warnings, target, inTransaction, bufferedOnce, deferred,  th, result,
                  lastBuffer, rdReturned, rdInvoked, updaters >>

\* lines 409-417: inner runs on the chosen connection and returns o; the
\* outcome is recorded, and the tablet is marked when the call can be retried
CallInner(o) ==
  /\ pc = "inner"
  /\ err' = o.err
  /\ statusAggregators' = updateStats(statusAggregators, aggregators, target, o.err).map
  /\ aggregators' = updateStats(statusAggregators, aggregators, target, o.err).heap
  /\ calls' = Called(calls, {"inner", "updateStats"})
  /\ attempts' = [attempts EXCEPT ![th.alias] = @ + 1]
  /\ lastInner' = [called |-> TRUE, alias |-> th.alias, canRetry |-> o.canRetry,
                   err |-> o.err]
  /\ allCanRetry' = (allCanRetry /\ o.canRetry)
  /\ IF o.canRetry
     THEN /\ invalidTablets' = invalidTablets \cup {th.alias}
          /\ i' = i + 1
          /\ pc' = "loop"
          /\ exit' = exit
     ELSE /\ invalidTablets' = invalidTablets
          /\ i' = i
          /\ pc' = "return"
          /\ exit' = "final"
  /\ UNCHANGED << config, aside, localHealthy, probes, defaultConnCollation, mu, firstObserved,
                  warnings, target, inTransaction, bufferedOnce, deferred,  th, result,
                  lastBuffer, rdReturned, rdInvoked, updaters >>

\* lines 319, 419: the error gets the target, the deferred callbacks run
Returned ==
  /\ result' = NewShardError(err, target)
  /\ rdInvoked' = rdInvoked \o deferred
  /\ calls' = [calls EXCEPT !["retryDone"] = @ + Len(deferred)]
  /\ deferred' = << >>
  /\ pc' = "done"

\* line 419: withRetry returns
Return ==
  /\ pc = "return"
  /\ Returned
  /\ emptyLookup' = NoLookup
  /\ UNCHANGED << config, aside, localHealthy, healthy, allClusterEvent, shared, target, inTransaction, i, err, invalidTablets,
                  bufferedOnce,  th, attempts, lastBuffer, lastInner,
                  allCanRetry, rdReturned, exit, updaters >>

(***************************************************************************)
(* updateDefaultConnCollation called by concurrent dispatches: each caller *)
(* is between calls, before its compare-and-swap, or before its load.      *)
(***************************************************************************)
\* line 483: caller u enters with a tablet whose collation is v
UpdaterCall(u, v) ==
  /\ upc[u] = "idle"
  /\ ucalls[u] < MaxUpdates
  /\ upc' = [upc EXCEPT ![u] = "cas"]
  /\ uval' = [uval EXCEPT ![u] = v]
  /\ ucalls' = [ucalls EXCEPT ![u] = @ + 1]
  /\ UNCHANGED << config, aside, localHealthy, probes, shared, pc, locals, ghosts >>

\* lines 484-486: the compare-and-swap of caller u, which returns on success
UpdaterCas(u) ==
  /\ upc[u] = "cas"
  /\ defaultConnCollation' = CasStore(defaultConnCollation, uval[u])
  /\ firstObserved' = IF firstObserved = 0 THEN uval[u] ELSE firstObserved
  /\ upc' = [upc EXCEPT ![u] = IF CasSucceeds(defaultConnCollation, uval[u])
                                THEN "idle" ELSE "load"]
  /\ UNCHANGED << config, aside, localHealthy, probes, statusAggregators, aggregators, mu, warnings, pc, locals, ghosts, uval, ucalls >>

\* lines 487-489: the load and the comparison of caller u
UpdaterLoad(u) ==
  /\ upc[u] = "load"
  /\ warnings' = IF CollationDiffers(defaultConnCollation, uval[u])
                 THEN warnings + 1 ELSE warnings
  /\ upc' = [upc EXCEPT ![u] = "idle"]
  /\ UNCHANGED << config, aside, localHealthy, probes, defaultConnCollation, statusAggregators, aggregators, mu, firstObserved, pc,
                  locals, ghosts, uval, ucalls >>

Next ==
  \/ \E t \in Targets, inTx \in BOOLEAN : WithRetry(t, inTx)
  \/ LoopExit
  \/ \E o \in BufferOutcomes : BufferWait(o)
  \/ BufferSkip
  \/ \E v \in ViewsOf(kev) : LookupResharding(v)
  \/ \E v \in ViewsOf(kev) : LookupReparent(v)
  \/ \E v \in ViewsOf(kev) : LookupInconsistent(v)
  \/ \E v \in ViewsOf(kev) : LookupNoTablet(v)
  \/ \E ts \in HealthySnapshots : SelectBalancer(ts)
  \/ \E ts \in HealthySnapshots : SelectShuffle(ts)
  \/ NoCandidate
  \/ ConnNotFound
  \/ UpdateCollationCas
  \/ UpdateCollationLoad
  \/ \E o \in InnerOutcomes : CallInner(o)
  \/ Return

Spec == Init /\ [][Next]_vars

\* the gateway with default flags, its dispatches reduced to their calls of
\* updateDefaultConnCollation
InitCollation ==
  /\ Init
  /\ retryCount = MaxRetryCount
  /\ ~buffer
  /\ allowedTabletTypes = {}
  /\ ~balancerEnabled

NextCollation ==
  \/ \E u \in Updaters, v \in CollationIDs : UpdaterCall(u, v)
  \/ \E u \in Updaters : UpdaterCas(u)
  \/ \E u \in Updaters : UpdaterLoad(u)

SpecCollation == InitCollation /\ [][NextCollation]_vars

(***************************************************************************)
(* shuffleTablets on every list of distinct tablets, in every order, for   *)
(* either cell.                                                            *)
(***************************************************************************)
ShuffledAliases == 1..MaxShuffled
Cells == { localCell, "cell2" }
\* the lists of n tablets with distinct aliases
TabletLists(n) ==
  { [k \in 1..n |-> TabletHealth(f[k], TRUE)] :
      f \in { g \in [1..n -> ShuffledAliases] :
                \A a, b \in 1..n : a # b => g[a] # g[b] } }

\* the gateway with default flags, about to shuffle some list
InitShuffle ==
  /\ InitGateway
  /\ retryCount = MaxRetryCount
  /\ ~buffer
  /\ allowedTabletTypes = {}
  /\ ~balancerEnabled
  /\ shCell \in Cells
  /\ shIn \in UNION { TabletLists(n) : n \in 0..MaxShuffled }
  /\ shOut = << >>
  /\ shDone = FALSE
  /\ InitRecorders
  /\ InitFailover
  /\ InitBarrier

\* lines 451-471: the list is shuffled in place
ShuffleTablets ==
  /\ ~shDone
  /\ shOut' \in shuffleTablets(shCell, shIn)
  /\ shDone' = TRUE
  /\ UNCHANGED << config, shared, pc, locals, ghosts, localHealthy, probes, updaters, shCell, shIn,
                  recorders, failover, barrier >>

NextShuffle == ShuffleTablets

SpecShuffle == InitShuffle /\ [][NextShuffle]_vars

(***************************************************************************)
(* updateStats called by concurrent dispatches, each after an attempt of   *)
(* its own: it takes gw.mu, looks the aggregator up, makes it when absent, *)
(* releases gw.mu and then updates the aggregator.                         *)
(***************************************************************************)
RecorderFrame ==
  UNCHANGED << config, defaultConnCollation, firstObserved, warnings, pc, locals, ghosts,
               localHealthy, probes, updaters, shuffler, failover, barrier, csPc, csRes >>

\* lines 411-412: inner returns o to dispatch r, which calls updateStats,
\* whether or not the attempt is retried afterwards
RecorderCall(r, t, o) ==
  /\ rpc[r] = "idle" \/ (rpc[r] = "inner" /\ rtarget[r] = t)
  /\ rpc' = [rpc EXCEPT ![r] = "lock"]
  /\ rtarget' = [rtarget EXCEPT ![r] = t]
  /\ rerr' = [rerr EXCEPT ![r] = (o.err # NoErr)]
  /\ completions' = [completions EXCEPT ![StatsKey(t)] =
                       [n |-> @.n + 1, failed |-> @.failed + (IF o.err # NoErr THEN 1 ELSE 0)]]
  /\ UNCHANGED << statusAggregators, aggregators, mu, raggr >>
  /\ RecorderFrame

\* line 439: gw.mu.Lock()
RecorderLock(r) ==
  /\ rpc[r] = "lock"
  /\ CanLock(mu)
  /\ mu' = r
  /\ rpc' = [rpc EXCEPT ![r] = "lookup"]
  /\ UNCHANGED << statusAggregators, aggregators, rtarget, rerr, raggr, completions >>
  /\ RecorderFrame

\* the aggregator found is returned with gw.mu still held
RecorderLookup_KeepsLock(r) ==
  /\ rpc[r] = "lookup"
  /\ LET a == LookupAggregator(statusAggregators, StatsKey(rtarget[r]))
     IN /\ raggr' = [raggr EXCEPT ![r] = a]
        /\ rpc' = [rpc EXCEPT ![r] = IF a # 0 THEN "update" ELSE "create"]
        /\ mu' = mu
  /\ UNCHANGED << statusAggregators, aggregators, rtarget, rerr, completions >>
  /\ RecorderFrame

\* lines 440-444: the lookup; when the aggregator exists it is returned and
\* the deferred Unlock runs
RecorderLookup(r) ==
  /\ rpc[r] = "lookup"
  /\ LET a == LookupAggregator(statusAggregators, StatsKey(rtarget[r]))
     IN /\ raggr' = [raggr EXCEPT ![r] = a]
        /\ rpc' = [rpc EXCEPT ![r] = IF a # 0 THEN "update" ELSE "create"]
        /\ mu' = IF a # 0 THEN 0 ELSE mu
  /\ UNCHANGED << statusAggregators, aggregators, rtarget, rerr, completions >>
  /\ RecorderFrame

\* lines 446-448: the aggregator is made and stored, the deferred Unlock runs
RecorderCreate(r) ==
  /\ rpc[r] = "create"
  /\ LET g == CreateAggregator(statusAggregators, aggregators, StatsKey(rtarget[r]))
     IN /\ statusAggregators' = g.map
        /\ aggregators' = g.heap
        /\ raggr' = [raggr EXCEPT ![r] = g.aggr]
  /\ mu' = 0
  /\ rpc' = [rpc EXCEPT ![r] = "update"]
  /\ UNCHANGED << rtarget, rerr, completions >>
  /\ RecorderFrame

\* line 432: UpdateQueryInfo on the aggregator returned, under its own mutex
RecorderUpdate(r) ==
  /\ rpc[r] = "update"
  /\ aggregators' = [aggregators EXCEPT ![raggr[r]] = UpdateQueryInfo(@, rerr[r])]
  /\ rpc' = [rpc EXCEPT ![r] = "done"]
  /\ UNCHANGED << statusAggregators, mu, rtarget, rerr, raggr, completions >>
  /\ RecorderFrame

\* the gateway with default flags, dispatches reduced to their calls of updateStats
InitStats ==
  /\ InitGateway
  /\ retryCount = MaxRetryCount
  /\ ~buffer
  /\ allowedTabletTypes = {}
  /\ ~balancerEnabled
  /\ InitShuffler
  /\ InitRecorders
  /\ InitFailover
  /\ InitBarrier

NextStats ==
  \/ \E r \in Recorders, t \in RecordedTargets, o \in InnerOutcomes : RecorderCall(r, t, o)
  \/ \E r \in Recorders : RecorderLock(r)
  \/ \E r \in Recorders : RecorderLookup(r)
  \/ \E r \in Recorders : RecorderCreate(r)
  \/ \E r \in Recorders : RecorderUpdate(r)

SpecStats == InitStats /\ [][NextStats]_vars

(***************************************************************************)
(* Concurrent dispatches, seen also while they are suspended in a call     *)
(* that can block, and a reader of CacheStatus.                            *)
(***************************************************************************)
\* the calls of an iteration that can block, in the order it makes them:
\* buffer.WaitForFailoverEnd (313), hc.GetHealthyTabletStats (331), inner (411)
SuspensionPoints == { "WaitForFailoverEnd", "GetHealthyTabletStats", "inner" }
\* the call that follows call p in the iteration
AfterSuspension(p) == IF p = "WaitForFailoverEnd" THEN "GetHealthyTabletStats" ELSE "inner"

\* lines 306-331: dispatch r for target t starts an iteration and is
\* suspended in its first blocking call: the buffer's when it asks the
\* buffer, the health check's otherwise
RecorderSuspend(r, t, p) ==
  /\ rpc[r] = "idle"
  /\ p \in { "WaitForFailoverEnd", "GetHealthyTabletStats" }
  /\ rpc' = [rpc EXCEPT ![r] = p]
  /\ rtarget' = [rtarget EXCEPT ![r] = t]
  /\ UNCHANGED << statusAggregators, aggregators, mu, rerr, raggr, completions >>
  /\ RecorderFrame

\* lines 313-411: the blocking call of dispatch r returns and the dispatch
\* goes on to the next one
RecorderResume(r) ==
  /\ rpc[r] \in { "WaitForFailoverEnd", "GetHealthyTabletStats" }
  /\ rpc' = [rpc EXCEPT ![r] = AfterSuspension(@)]
  /\ UNCHANGED << statusAggregators, aggregators, mu, rtarget, rerr, raggr, completions >>
  /\ RecorderFrame

\* the reader of CacheStatus as a holder of gw.mu
Reader == MaxRecorders + 1
\* the dispatches that run beside the reader
Dispatches == 1..(MaxRecorders - 1)

\* the aggregators of the map
Held(aggrs) == { aggrs[k] : k \in DOMAIN aggrs }

\* lines 255-258, 260: the list with one entry for each entry of the map.
\* The order sort.Sort leaves is that of TabletCacheStatusList, which this
\* file does not define: every order is a possible result.
CacheStatusLists(aggrs) ==
  { s \in [1..Cardinality(DOMAIN aggrs) -> Held(aggrs)] :
      \A k \in DOMAIN aggrs : \E n \in DOMAIN s : s[n] = aggrs[k] }

CacheFrame ==
  UNCHANGED << config, statusAggregators, aggregators, defaultConnCollation, firstObserved,
               warnings, pc, locals, ghosts, localHealthy, probes, updaters, shuffler,
               failover, barrier, rpc, rtarget, rerr, raggr, completions >>

\* line 254: CacheStatus takes gw.mu
CacheStatusLock ==
  /\ csPc = "idle"
  /\ CanLock(mu)
  /\ mu' = Reader
  /\ csPc' = "read"
  /\ UNCHANGED csRes
  /\ CacheFrame

\* lines 255-261: the list is built from the map, gw.mu is released, the
\* list is sorted and returned
CacheStatusRead ==
  /\ csPc = "read"
  /\ csRes' \in CacheStatusLists(statusAggregators)
  /\ mu' = 0
  /\ csPc' = "idle"
  /\ CacheFrame

NextCache ==
  \/ \E r \in Dispatches, t \in RecordedTargets, p \in SuspensionPoints : RecorderSuspend(r, t, p)
  \/ \E r \in Dispatches : RecorderResume(r)
  \/ \E r \in Dispatches, t \in RecordedTargets, o \in InnerOutcomes : RecorderCall(r, t, o)
  \/ \E r \in Dispatches : RecorderLock(r)
  \/ \E r \in Dispatches : RecorderLookup(r)
  \/ \E r \in Dispatches : RecorderCreate(r)
  \/ \E r \in Dispatches : RecorderUpdate(r)
  \/ CacheStatusLock
  \/ CacheStatusRead

SpecCache == InitStats /\ [][NextCache]_vars

(***************************************************************************)
(* WaitForTablets, the barrier at startup: it finds the targets, waits for *)
(* their tablets to serve and, for PRIMARY, for the keyspaces to be         *)
(* consistent, each under the context with the initial tablet timeout.     *)
(***************************************************************************)
\* what a call made under the context with the timeout can return
WaitErrors == { NoErr, DeadlineExceeded, Canceled, ErrTopo }

\* the timeout returned to the caller like any other error
DegradedMode_Fatal(e) == e
\* lines 202-214: the deferred switch turns context.DeadlineExceeded into
\* nil; it compares the error itself, and leaves every other error as it is
DegradedMode(e) == IF e = DeadlineExceeded THEN NoErr ELSE e

\* the keyspaces waited for whatever the tablet types
WaitsForConsistentKeyspaces_AnyType(types, kv) == kv
\* lines 236: the keyspaces are waited for when PRIMARY is among the types
\* and there is a watcher
WaitsForConsistentKeyspaces(types, kv) == "PRIMARY" \in types /\ kv

BarrierFrame ==
  UNCHANGED << config, shared, pc, locals, ghosts, localHealthy, probes, updaters,
               shuffler, recorders, failover >>

\* lines 197-219: the call; with no tablet type to wait for it returns nil
WaitForTablets(types) ==
  /\ wtPc = "idle"
  /\ tabletTypesToWait' = types
  /\ wtErr' = NoErr
  /\ wtPc' = IF types = {} THEN "deferred" ELSE "find"
  /\ UNCHANGED << wtCalled, wtLast, wtWarned, wtResult >>
  /\ BarrierFrame

\* lines 222-225: FindAllTargetsAndKeyspaces returns e
FindAllTargetsAndKeyspaces(e) ==
  /\ wtPc = "find"
  /\ wtErr' = e
  /\ wtLast' = e
  /\ wtCalled' = wtCalled \cup {"FindAllTargetsAndKeyspaces"}
  /\ wtPc' = IF e # NoErr THEN "deferred" ELSE "serving"
  /\ UNCHANGED << tabletTypesToWait, wtWarned, wtResult >>
  /\ BarrierFrame

\* lines 226-229, 236-239: WaitForAllServingTablets returns e
WaitForAllServingTablets(e) ==
  /\ wtPc = "serving"
  /\ wtErr' = e
  /\ wtLast' = e
  /\ wtCalled' = wtCalled \cup {"WaitForAllServingTablets"}
  /\ wtPc' = IF e = NoErr /\ WaitsForConsistentKeyspaces(tabletTypesToWait, kev)
             THEN "consistent" ELSE "deferred"
  /\ UNCHANGED << tabletTypesToWait, wtWarned, wtResult >>
  /\ BarrierFrame

\* line 237: WaitForConsistentKeyspaces returns e, which is returned
WaitForConsistentKeyspaces(e) ==
  /\ wtPc = "consistent"
  /\ wtErr' = e
  /\ wtLast' = e
  /\ wtCalled' = wtCalled \cup {"WaitForConsistentKeyspaces"}
  /\ wtPc' = "deferred"
  /\ UNCHANGED << tabletTypesToWait, wtWarned, wtResult >>
  /\ BarrierFrame

\* lines 202-214: the deferred function looks at err, and WaitForTablets returns
WaitForTabletsReturn ==
  /\ wtPc = "deferred"
  /\ wtWarned' = (wtErr = DeadlineExceeded)
  /\ wtResult' = DegradedMode(wtErr)
  /\ wtPc' = "done"
  /\ UNCHANGED << tabletTypesToWait, wtErr, wtCalled, wtLast >>
  /\ BarrierFrame

\* the gateway made with or without buffering, about to wait for its tablets
InitWait ==
  /\ InitGateway
  /\ retryCount = MaxRetryCount
  /\ allowedTabletTypes = {}
  /\ ~balancerEnabled
  /\ InitShuffler
  /\ InitRecorders
  /\ InitFailover
  /\ InitBarrier

NextWait ==
  \/ \E types \in SUBSET TabletTypes : WaitForTablets(types)
  \/ \E e \in WaitErrors : FindAllTargetsAndKeyspaces(e)
  \/ \E e \in WaitErrors : WaitForAllServingTablets(e)
  \/ \E e \in WaitErrors : WaitForConsistentKeyspaces(e)
  \/ WaitForTabletsReturn

SpecWait == InitWait /\ [][NextWait]_vars

(***************************************************************************)
(* The failover buffer, its requests, the goroutine of setupBuffering that *)
(* hands it the keyspace events, and Close.                                *)
(***************************************************************************)
\* the queue takes one request more than max_size
BufferIsFull_OffByOne(q) == Len(q) > BufferSize
\* the queue of a shard holds max_size requests
BufferIsFull(q) == Len(q) >= BufferSize

\* an error classified as "failover in progress"
IsFailoverError(e) == e # NoErr /\ Code(e) = "CLUSTER_EVENT"

\* the kinds of keyspace event: a failover (reparenting or resharding, no
\* serving primary) begins, or the keyspace is consistent with a serving primary
KeyspaceEvents == { "failover", "consistent" }

\* a consistent event ends the episode at once
ModeAfterEvent_SkipsDraining(mode, evt) ==
  IF evt = "failover" /\ mode = "passthrough" THEN "buffering"
  ELSE IF evt = "consistent" /\ mode = "buffering" THEN "passthrough"
  ELSE mode
\* HandleKeyspaceEvent: the mode of a shard after an event for it
ModeAfterEvent(mode, evt) ==
  IF evt = "failover" /\ mode = "passthrough" THEN "buffering"
  ELSE IF evt = "consistent" /\ mode = "buffering" THEN "draining"
  ELSE mode

\* the mode of a shard as a call of WaitForFailoverEnd with previous error
\* prev finds it: a failover error starts the buffering
ModeAtCall(mode, prev, shutdown) ==
  IF ~shutdown /\ mode = "passthrough" /\ IsFailoverError(prev) THEN "buffering" ELSE mode

\* the request a drain releases is the newest
NextDrained_Newest(q) == q[Len(q)]
\* the request a drain releases: the one that arrived first
NextDrained(q) == Head(q)

\* the queue without request w
RECURSIVE Without(_, _)
Without(q, w) ==
  IF q = << >> THEN << >>
  ELSE IF Head(q) = w THEN Tail(q) ELSE << Head(q) >> \o Without(Tail(q), w)

\* Shutdown: what a waiter is returned
ShutdownOutcome == [retryDone |-> FALSE, err |-> ErrShuttingDown]

\* nobody is taken to wait in the shard
Parked_None(sh) == {}
\* the requests parked in the queue of shard sh
Parked(sh) == { w \in Waiters : wpc[w] = "parked" /\ wshard[w] = sh }

FailoverFrame ==
  UNCHANGED << retryCount, allowedTabletTypes, balancerEnabled, balancerKeyspaces, buffer,
               kev, shared, pc, locals, ghosts, localHealthy, probes, updaters, shuffler, recorders, barrier,
               barrier >>

\* lines 152-166: the goroutine receives an event for shard sh and hands it
\* to buffer.HandleKeyspaceEvent; a buffer that was shut down stays as it is
HandleKeyspaceEvent(sh, evt) ==
  /\ listening
  /\ bufMode' = [bufMode EXCEPT ![sh] = IF bufShutdown THEN @ ELSE ModeAfterEvent(@, evt)]
  /\ bufExpired' = [bufExpired EXCEPT ![sh] = (@ /\ bufMode'[sh] = "buffering")]
  /\ handledAfterClose' = (handledAfterClose \/ closePc = "closed")
  /\ UNCHANGED << bufQueue, bufShutdown, listening, closePc, wpc, wshard, wout >>
  /\ FailoverFrame

\* lines 156-157, 159-161: the context is done or the channel yields nil, and
\* the goroutine returns
StopListening ==
  /\ listening
  /\ listening' = FALSE
  /\ UNCHANGED << bufMode, bufQueue, bufExpired, bufShutdown, closePc, handledAfterClose, wpc, wshard, wout >>
  /\ FailoverFrame

\* WaitForFailoverEnd called by request w for shard sh with the previous
\* error prev: it returns at once unless the shard is buffering, within its
\* window and below max_size, where the request parks
Waited(w, sh, prev) ==
  LET m == ModeAtCall(bufMode[sh], prev, bufShutdown)
      park == m = "buffering" /\ ~bufExpired[sh] /\ ~BufferIsFull(bufQueue[sh])
  IN /\ bufMode' = [bufMode EXCEPT ![sh] = m]
     /\ wpc' = [wpc EXCEPT ![w] = IF park THEN "parked" ELSE "returned"]
     /\ wshard' = [wshard EXCEPT ![w] = IF park THEN sh ELSE NoShard]
     /\ bufQueue' = [bufQueue EXCEPT ![sh] = IF park THEN Append(@, w) ELSE @]
     /\ wout' = [wout EXCEPT ![w] =
                   [retryDone |-> FALSE,
                    err |-> IF m # "buffering" \/ park THEN NoErr
                            ELSE IF bufExpired[sh] THEN ErrWindowExpired
                            ELSE ErrBufferFull]]

\* line 313: request w calls WaitForFailoverEnd for shard sh with the
\* previous error prev
WaitForFailoverEnd(w, sh, prev) ==
  /\ buffer
  /\ wpc[w] = "idle"
  /\ Waited(w, sh, prev)
  /\ UNCHANGED << bufExpired, bufShutdown, listening, closePc, handledAfterClose >>
  /\ FailoverFrame

\* the window deadline of shard sh passes: the parked requests are released
\* with the expiry error
WindowDeadline(sh) ==
  /\ bufMode[sh] = "buffering"
  /\ ~bufExpired[sh]
  /\ bufExpired' = [bufExpired EXCEPT ![sh] = TRUE]
  /\ wpc' = [w \in Waiters |-> IF w \in Parked(sh) THEN "returned" ELSE wpc[w]]
  /\ wout' = [w \in Waiters |-> IF w \in Parked(sh)
                                  THEN [retryDone |-> FALSE, err |-> ErrWindowExpired]
                                  ELSE wout[w]]
  /\ wshard' = [w \in Waiters |-> IF w \in Parked(sh) THEN NoShard ELSE wshard[w]]
  /\ bufQueue' = [bufQueue EXCEPT ![sh] = << >>]
  /\ UNCHANGED << bufMode, bufShutdown, listening, closePc, handledAfterClose >>
  /\ FailoverFrame

\* the cancelled request is returned its error but stays in the queue
CancelWait_StaysQueued(w) ==
  /\ wpc[w] = "parked"
  /\ wpc' = [wpc EXCEPT ![w] = "returned"]
  /\ wout' = [wout EXCEPT ![w] = [retryDone |-> FALSE, err |-> ErrCanceled]]
  /\ UNCHANGED << bufQueue, wshard >>
  /\ UNCHANGED << bufMode, bufExpired, bufShutdown, listening, closePc, handledAfterClose >>
  /\ FailoverFrame

\* the context of a parked request is cancelled: it leaves the queue
CancelWait(w) ==
  /\ wpc[w] = "parked"
  /\ wpc' = [wpc EXCEPT ![w] = "returned"]
  /\ wout' = [wout EXCEPT ![w] = [retryDone |-> FALSE, err |-> ErrCanceled]]
  /\ bufQueue' = [bufQueue EXCEPT ![wshard[w]] = Without(@, w)]
  /\ wshard' = [wshard EXCEPT ![w] = NoShard]
  /\ UNCHANGED << bufMode, bufExpired, bufShutdown, listening, closePc, handledAfterClose >>
  /\ FailoverFrame

\* draining: the next request of shard sh is released with a retryDone
Drain(sh) ==
  /\ bufMode[sh] = "draining"
  /\ bufQueue[sh] # << >>
  /\ LET w == NextDrained(bufQueue[sh])
     IN /\ wpc' = [wpc EXCEPT ![w] = "released"]
        /\ wout' = [wout EXCEPT ![w] = [retryDone |-> TRUE, err |-> NoErr]]
        /\ bufQueue' = [bufQueue EXCEPT ![sh] = Without(@, w)]
  /\ UNCHANGED << bufMode, bufExpired, bufShutdown, listening, closePc, handledAfterClose, wshard >>
  /\ FailoverFrame

\* lines 316-321: a released request has retried and invokes its retryDone
RetryDone(w) ==
  /\ wpc[w] = "released"
  /\ wpc' = [wpc EXCEPT ![w] = "returned"]
  /\ wshard' = [wshard EXCEPT ![w] = NoShard]
  /\ UNCHANGED << bufMode, bufQueue, bufExpired, bufShutdown, listening, closePc, handledAfterClose, wout >>
  /\ FailoverFrame

\* the drain of shard sh is complete: every released request has retried
DrainDone(sh) ==
  /\ bufMode[sh] = "draining"
  /\ bufQueue[sh] = << >>
  /\ \A w \in Waiters : ~(wpc[w] = "released" /\ wshard[w] = sh)
  /\ bufMode' = [bufMode EXCEPT ![sh] = "passthrough"]
  /\ UNCHANGED << bufQueue, bufExpired, bufShutdown, listening, closePc, handledAfterClose, wpc, wshard, wout >>
  /\ FailoverFrame

\* Close goes on to the health check without shutting the buffer down
CloseShutdown_Skipped ==
  /\ closePc = "open"
  /\ closePc' = "hc"
  /\ UNCHANGED << bufShutdown, bufMode, bufQueue, bufExpired, wpc, wout, wshard, listening,
                  handledAfterClose >>
  /\ FailoverFrame

\* lines 244-247: Close shuts the buffer down, when there is one: every
\* shard goes to passthrough and every waiter is returned the shutdown error
CloseShutdown ==
  /\ closePc = "open"
  /\ closePc' = "hc"
  /\ IF buffer
     THEN /\ bufShutdown' = TRUE
          /\ bufMode' = [sh \in BufferShards |-> "passthrough"]
          /\ bufQueue' = [sh \in BufferShards |-> << >>]
          /\ bufExpired' = [sh \in BufferShards |-> FALSE]
          /\ wpc' = [w \in Waiters |-> IF wpc[w] = "parked" THEN "returned" ELSE wpc[w]]
          /\ wout' = [w \in Waiters |-> IF wpc[w] = "parked" THEN ShutdownOutcome ELSE wout[w]]
          /\ wshard' = [w \in Waiters |-> IF wpc[w] = "parked" THEN NoShard ELSE wshard[w]]
     ELSE UNCHANGED << bufShutdown, bufMode, bufQueue, bufExpired, wpc, wout, wshard >>
  /\ UNCHANGED << listening, handledAfterClose >>
  /\ FailoverFrame

\* line 248: Close closes the health check
CloseHealthCheck ==
  /\ closePc = "hc"
  /\ closePc' = "closed"
  /\ UNCHANGED << bufMode, bufQueue, bufExpired, bufShutdown, listening, handledAfterClose, wpc, wshard, wout >>
  /\ FailoverFrame

\* the previous errors a request can bring: none, or a failover error
PreviousErrors == { NoErr, ErrReparent }

\* the gateway made with or without buffering, no dispatch under way
InitBuffer ==
  /\ InitGateway
  /\ retryCount = MaxRetryCount
  /\ allowedTabletTypes = {}
  /\ ~balancerEnabled
  /\ InitShuffler
  /\ InitRecorders
  /\ InitFailover
  /\ InitBarrier

NextBuffer ==
  \/ \E sh \in BufferShards, evt \in KeyspaceEvents : HandleKeyspaceEvent(sh, evt)
  \/ StopListening
  \/ \E w \in Waiters, sh \in BufferShards, prev \in PreviousErrors :
       WaitForFailoverEnd(w, sh, prev)
  \/ \E sh \in BufferShards : WindowDeadline(sh)
  \/ \E w \in Waiters : CancelWait(w)
  \/ \E sh \in BufferShards : Drain(sh)
  \/ \E w \in Waiters : RetryDone(w)
  \/ \E sh \in BufferShards : DrainDone(sh)
  \/ CloseShutdown
  \/ CloseHealthCheck

SpecBuffer == InitBuffer /\ [][NextBuffer]_vars

\* timers fire and the drain runs: a window deadline that stays due passes,
\* and a drain that stays possible goes on
FairBuffer ==
  \A sh \in BufferShards :
    /\ WF_vars(WindowDeadline(sh))
    /\ WF_vars(Drain(sh))

SpecBufferLive == SpecBuffer /\ FairBuffer

(***************************************************************************)
(* One dispatch outside a transaction to a PRIMARY target, together with   *)
(* the failover buffer: its call of WaitForFailoverEnd is a request of the *)
(* buffer, which the keyspace events, the window deadline and the drain    *)
(* act on while it waits.                                                  *)
(***************************************************************************)
\* the request of the buffer that is the dispatch
Dispatcher == 1
\* the shard of the buffer a target belongs to
ShardOf(t) == << t.Keyspace, t.Shard >>

\* the buffer is asked without the error of the iteration before
DispatchWait_NoError ==
  /\ pc = "loop"
  /\ LoopCond(i, retryCount)
  /\ ShouldCheckBuffer(buffer, bufferedOnce, inTransaction, target)
  /\ wpc[Dispatcher] = "idle"
  /\ Waited(Dispatcher, ShardOf(target), NoErr)
  /\ calls' = Called(calls, {"iter", "WaitForFailoverEnd"})
  /\ pc' = "waiting"
  /\ emptyLookup' = NoLookup
  /\ UNCHANGED << config, shared, locals, attempts, lastBuffer, lastInner, allCanRetry,
                  rdReturned, rdInvoked, exit, localHealthy, healthy, allClusterEvent, updaters, shuffler, recorders, barrier,
                  bufExpired, bufShutdown, listening, closePc, handledAfterClose >>

\* lines 311-313: the dispatch calls WaitForFailoverEnd with its last error
DispatchWait ==
  /\ pc = "loop"
  /\ LoopCond(i, retryCount)
  /\ ShouldCheckBuffer(buffer, bufferedOnce, inTransaction, target)
  /\ wpc[Dispatcher] = "idle"
  /\ Waited(Dispatcher, ShardOf(target), err)
  /\ calls' = Called(calls, {"iter", "WaitForFailoverEnd"})
  /\ pc' = "waiting"
  /\ emptyLookup' = NoLookup
  /\ UNCHANGED << config, shared, locals, attempts, lastBuffer, lastInner, allCanRetry,
                  rdReturned, rdInvoked, exit, localHealthy, healthy, allClusterEvent, updaters, shuffler, recorders, barrier,
                  bufExpired, bufShutdown, listening, closePc, handledAfterClose >>

\* lines 313-329: WaitForFailoverEnd returns to the dispatch, at once or
\* after the wait
DispatchResume ==
  /\ pc = "waiting"
  /\ wpc[Dispatcher] \in {"released", "returned"}
  /\ BufferReturned(wout[Dispatcher])
  /\ wpc' = [wpc EXCEPT ![Dispatcher] = IF @ = "returned" THEN "idle" ELSE @]
  /\ wout' = [wout EXCEPT ![Dispatcher] = IF wpc[Dispatcher] = "returned" THEN NoOutcome ELSE @]
  /\ UNCHANGED << config, shared, target, inTransaction, i, invalidTablets, th, result,
                  calls, attempts, lastInner, allCanRetry, rdInvoked, localHealthy, probes, updaters,
                  shuffler, recorders, barrier, bufMode, bufQueue, bufExpired, bufShutdown,
                  listening,
                  closePc, handledAfterClose, wshard >>

\* lines 319, 419: withRetry returns; a deferred retryDone tells the buffer
\* that the released request has retried
DispatchReturn ==
  /\ pc = "return"
  /\ Returned
  /\ wpc' = [wpc EXCEPT ![Dispatcher] = IF deferred # << >> THEN "returned" ELSE @]
  /\ wshard' = [wshard EXCEPT ![Dispatcher] = IF deferred # << >> THEN NoShard ELSE @]
  /\ emptyLookup' = NoLookup
  /\ UNCHANGED << config, shared, target, inTransaction, i, err, invalidTablets,
                  bufferedOnce, th, attempts, lastBuffer, lastInner, allCanRetry,
                  rdReturned, exit, localHealthy, healthy, allClusterEvent, updaters, shuffler, recorders,
                  barrier, bufMode,
                  bufQueue, bufExpired, bufShutdown, listening, closePc, handledAfterClose, wout >>

\* the gateway made with buffering and default flags otherwise; the retries
\* are those the wait and the attempt after it need, or fewer
InitE2E ==
  /\ InitGateway
  /\ retryCount \in 0..(MaxRetryCount - 1)
  /\ buffer
  /\ allowedTabletTypes = {}
  /\ ~balancerEnabled
  /\ InitShuffler
  /\ InitRecorders
  /\ InitFailover
  /\ InitBarrier

\* the targets a dispatch may wait in the buffer for
PrimaryTargets == { t \in Targets : t.TabletType = "PRIMARY" }

\* the healthy tablets of a PRIMARY target: the one primary of the shard
PrimarySnapshots == { ts \in HealthySnapshots : Len(ts) = 1 }

\* the dispatch has not returned; what happens to the buffer afterwards, or
\* to the shards the dispatch is not for, does not reach it
Running == pc # "done"

NextE2E ==
  \/ \E t \in PrimaryTargets : WithRetry(t, FALSE)
  \/ LoopExit
  \/ DispatchWait
  \/ DispatchResume
  \/ BufferSkip
  \/ \E v \in ViewsOf(kev) : LookupResharding(v)
  \/ \E v \in ViewsOf(kev) : LookupReparent(v)
  \/ \E v \in ViewsOf(kev) : LookupInconsistent(v)
  \/ \E v \in ViewsOf(kev) : LookupNoTablet(v)
  \/ \E ts \in PrimarySnapshots : SelectShuffle(ts)
  \/ NoCandidate
  \/ ConnNotFound
  \/ UpdateCollationCas
  \/ UpdateCollationLoad
  \/ \E o \in InnerOutcomes : CallInner(o)
  \/ DispatchReturn
  \/ \E evt \in KeyspaceEvents : Running /\ HandleKeyspaceEvent(ShardOf(target), evt)
  \/ Running /\ WindowDeadline(ShardOf(target))
  \/ CancelWait(Dispatcher)
  \/ Running /\ Drain(ShardOf(target))
  \/ Running /\ DrainDone(ShardOf(target))

\* the dispatch goes on whenever it can, timers fire and the drain runs
FairE2E ==
  /\ WF_vars(Running /\ WindowDeadline(ShardOf(target)))
  /\ WF_vars(Running /\ Drain(ShardOf(target)))
  /\ WF_vars(DispatchResume)

SpecE2E == InitE2E /\ [][NextE2E]_vars /\ FairE2E

(***************************************************************************)
(* Properties.                                                             *)
(***************************************************************************)
\* the decoration "target: keyspace.shard.type" of an error of target t
TargetText(t) ==
  "target: " \o t.Keyspace \o "." \o t.Shard \o
    (IF t.TabletType = "PRIMARY" THEN ".primary"
     ELSE IF t.TabletType = "REPLICA" THEN ".replica" ELSE ".rdonly")
\* error e with the target of t in front
Decorated(e, t) == << [code |-> "", msg |-> TargetText(t), quoted |-> ""] >> \o e
NoCalls == \A o \in Ops : calls[o] = 0
Tried == { a \in Aliases : attempts[a] > 0 }
Started == pc # "idle"

\* C1: a dispatch invokes inner on each tablet at most once; and when every
\* iteration either made an attempt that signalled canRetry or found no
\* candidate left, the dispatch returns the last attempt's error decorated
\* with the target.
C1_EachTabletOnceLastError ==
  /\ \A a \in Aliases : attempts[a] <= 1
  /\ ( /\ pc = "done"
       /\ lastInner.called
       /\ allCanRetry
       /\ exit \in {"exhausted", "nocandidate"}
       /\ calls["inner"] = calls["iter"] - (IF exit = "nocandidate" THEN 1 ELSE 0) )
     => result = Decorated(lastInner.err, target)

\* C1 witness: with retryCount >= 1 a candidate set of retryCount+1 tablets
\* was tried out, every attempt retryable, and the retries are used up
C1_Witness ==
  /\ pc = "done"
  /\ exit = "exhausted"
  /\ allCanRetry
  /\ retryCount >= 1
  /\ calls["inner"] = retryCount + 1
  /\ Cardinality(Tried) = retryCount + 1
  /\ result = Decorated(lastInner.err, target)

\* C2: the loop body runs at most retryCount+1 times, iterations without an
\* inner call included, so inner runs at most retryCount+1 times.
C2_IterationBudget ==
  /\ calls["iter"] <= (IF retryCount >= 0 THEN retryCount + 1 ELSE 0)
  /\ calls["inner"] <= calls["iter"]
  /\ calls["GetHealthyTabletStats"] <= calls["iter"]

\* C2 witness: the budget was used up although some iteration called no inner
C2_Witness ==
  /\ pc = "done"
  /\ exit = "exhausted"
  /\ calls["iter"] = retryCount + 1
  /\ calls["inner"] >= 1
  /\ calls["inner"] < calls["iter"]

\* C3: a transaction on a target that is not PRIMARY ends at once with an
\* INTERNAL error: no collaborator is called and no statistics are recorded.
C3_TransactionOnReplicaInternal ==
  (Started /\ inTransaction /\ target.TabletType # "PRIMARY")
    => /\ pc = "done"
       /\ Code(result) = "INTERNAL"
       /\ NoCalls
       /\ statusAggregators = << >>
       /\ defaultConnCollation = 0

\* C3 witness: a transaction on a REPLICA target was refused
C3_Witness ==
  /\ pc = "done"
  /\ inTransaction
  /\ target.TabletType = "REPLICA"
  /\ Code(result) = "INTERNAL"

\* C4 as stated: a tablet type outside a non-empty allow-list always gives
\* FAILED_PRECONDITION with no collaborator called, and an empty allow-list
\* never gives it.
C4_Original ==
  /\ (Started /\ allowedTabletTypes # {} /\ target.TabletType \notin allowedTabletTypes)
       => (pc = "done" /\ Code(result) = "FAILED_PRECONDITION" /\ NoCalls)
  /\ (Started /\ allowedTabletTypes = {} /\ exit = "preflight")
       => Code(result) # "FAILED_PRECONDITION"

\* C4 amended: a tablet type outside a non-empty allow-list gives
\* FAILED_PRECONDITION with no collaborator called, unless the dispatch is a
\* transaction on a target that is not PRIMARY, which is refused first with
\* INTERNAL (also with no collaborator called); an empty allow-list lets
\* every tablet type pass.
C4_AllowListFailedPrecondition ==
  /\ (Started /\ allowedTabletTypes # {} /\ target.TabletType \notin allowedTabletTypes)
       => /\ pc = "done"
          /\ NoCalls
          /\ Code(result) = (IF inTransaction /\ target.TabletType # "PRIMARY"
                             THEN "INTERNAL" ELSE "FAILED_PRECONDITION")
  /\ (Started /\ allowedTabletTypes = {} /\ exit = "preflight")
       => Code(result) # "FAILED_PRECONDITION"

\* C4 witness: allow-list {REPLICA}, target RDONLY outside a transaction
C4_Witness ==
  /\ pc = "done"
  /\ allowedTabletTypes = {"REPLICA"}
  /\ target.TabletType = "RDONLY"
  /\ ~inTransaction
  /\ Code(result) = "FAILED_PRECONDITION"
  /\ NoCalls

\* C5: a transaction on a PRIMARY target never asks the buffer.
C5_TransactionNeverBuffered ==
  (Started /\ inTransaction /\ target.TabletType = "PRIMARY")
    => (calls["WaitForFailoverEnd"] = 0 /\ ~lastBuffer.called)

\* C5 witness: with a buffer, a transaction on PRIMARY was retried after a
\* failed attempt and finished
C5_Witness ==
  /\ pc = "done"
  /\ buffer
  /\ inTransaction
  /\ target.TabletType = "PRIMARY"
  /\ calls["inner"] >= 2
  /\ calls["WaitForFailoverEnd"] = 0

\* C6: once WaitForFailoverEnd has returned a retryDone it is not called
\* again in this dispatch; after it returned (nil, nil) the next iteration
\* calls it again.
C6_BufferedAtMostOnce ==
  /\ [](Cardinality(rdReturned) <= 1)
  /\ [][ /\ rdReturned # {}
            => calls'["WaitForFailoverEnd"] = calls["WaitForFailoverEnd"]
         /\ ( /\ lastBuffer.called
              /\ lastBuffer.retryDone = 0
              /\ lastBuffer.err = NoErr
              /\ calls'["iter"] = calls["iter"] + 1 )
            => calls'["WaitForFailoverEnd"] = calls["WaitForFailoverEnd"] + 1 ]_vars

\* C6 witness: the first wait returned (nil, nil), the second iteration asked
\* again and got a retryDone, and a third iteration ran without asking
C6_Witness ==
  /\ calls["WaitForFailoverEnd"] = 2
  /\ calls["iter"] = 3
  /\ rdReturned # {}

\* C7: every retryDone returned is invoked exactly once, in the step that
\* returns from withRetry, and no attempt follows it.
C7_RetryDoneExactlyOnce ==
  /\ [](\A d \in rdReturned :
          Cardinality({k \in 1..Len(rdInvoked) : rdInvoked[k] = d})
            = (IF pc = "done" THEN 1 ELSE 0))
  /\ [](\A k \in 1..Len(rdInvoked) : rdInvoked[k] \in rdReturned)
  /\ [][ /\ rdInvoked' # rdInvoked => (pc = "return" /\ pc' = "done")
         /\ rdInvoked # << >> => calls'["inner"] = calls["inner"] ]_vars

\* C7 witness: a retryDone was returned, later attempts failed until the
\* retries were used up, and the callback was invoked once at the return
C7_Witness ==
  /\ pc = "done"
  /\ exit = "exhausted"
  /\ rdReturned # {}
  /\ Len(rdInvoked) = 1
  /\ calls["inner"] >= 1
  /\ result # NoErr

\* C8: an error of WaitForFailoverEnd ends the dispatch at once, no lookup
\* and no inner call follows, and the returned error holds the buffer's
\* error and quotes the previous attempt's error.
C8_BufferErrorStops ==
  /\ [](lastBuffer.err # NoErr
          => /\ pc \in {"return", "done"}
             /\ pc = "done"
                  => result = Decorated(
                       << [code |-> "", msg |-> BufferWrapMsg,
                           quoted |-> ErrString(lastBuffer.prev)] >> \o lastBuffer.err,
                       target))
  /\ [][lastBuffer.err # NoErr
          => /\ calls'["GetHealthyTabletStats"] = calls["GetHealthyTabletStats"]
             /\ calls'["inner"] = calls["inner"]
             /\ calls'["iter"] = calls["iter"]]_vars

\* C8 witness: after a failed attempt the buffer ended the wait with an error
C8_Witness ==
  /\ pc = "done"
  /\ lastBuffer.err # NoErr
  /\ lastInner.called
  /\ lastBuffer.prev = lastInner.err
  /\ lastBuffer.prev # NoErr

\* C9 as stated: every error withRetry returns carries the target, the
\* pre-flight errors included.
C9_Original ==
  (pc = "done" /\ result # NoErr) => Head(result).msg = TargetText(target)

\* C9 amended: every error returned after the main loop is the loop's last
\* error with the target in front; the pre-flight errors INTERNAL and
\* FAILED_PRECONDITION are returned without it.
C9_LoopErrorsDecorated ==
  /\ (pc = "done" /\ exit # "preflight")
       => result = (IF err = NoErr THEN NoErr ELSE Decorated(err, target))
  /\ (pc = "done" /\ exit = "preflight")
       => /\ Len(result) = 1
          /\ Code(result) \in {"INTERNAL", "FAILED_PRECONDITION"}
          /\ Head(result).msg # TargetText(target)

\* C9 witness: inner's terminal error came back with the target in front
C9_Witness ==
  /\ pc = "done"
  /\ exit = "final"
  /\ lastInner.err # NoErr
  /\ result = Decorated(lastInner.err, target)

\* C10: under any interleaving the stored collation is the first non-zero
\* value handed to the atomic, and once non-zero it never changes.
C10_FirstNonZeroWins ==
  /\ [](defaultConnCollation = firstObserved)
  /\ [][defaultConnCollation # 0 => defaultConnCollation' = defaultConnCollation]_vars

\* C10 witness: a value is stored, and a caller whose compare-and-swap came
\* later with another non-zero value is about to load
C10_Witness ==
  \E u \in Updaters :
    /\ upc[u] = "load"
    /\ uval[u] # 0
    /\ defaultConnCollation # 0
    /\ uval[u] # defaultConnCollation

\* C11: an update asks for the inconsistency warning exactly when it carries
\* a non-zero value that differs from the non-zero value already stored; an
\* update carrying zero never asks for it.
C11_Original ==
  [][\A u \in Updaters :
       (upc[u] # "idle" /\ upc'[u] = "idle")
         => ( (warnings' = warnings + 1)
                <=> ( /\ uval[u] # 0
                      /\ defaultConnCollation # 0
                      /\ uval[u] # defaultConnCollation ) )]_vars

\* the number of entries of ts equal to t
CountOf(ts, t) == Cardinality({ k \in 1..Len(ts) : ts[k] = t })

\* C12: whatever the list and the random choices, shuffleTablets leaves the
\* same tablets, each as often as before, with every tablet of the given cell
\* before every tablet of another cell.
C12_ShufflePartitions ==
  shDone =>
    /\ Len(shOut) = Len(shIn)
    /\ \A k \in 1..Len(shIn) :
         /\ CountOf(shOut, shIn[k]) = CountOf(shIn, shIn[k])
         /\ CountOf(shIn, shOut[k]) = CountOf(shOut, shOut[k])
    /\ \A a, b \in 1..Len(shOut) :
         (a < b /\ shOut[b].cell = shCell) => shOut[a].cell = shCell

\* C12 witness: a list that began with a tablet of another cell, holding
\* tablets of both kinds, was shuffled
C12_Witness ==
  /\ shDone
  /\ Len(shIn) >= 3
  /\ shIn[1].cell # shCell
  /\ \E k \in 1..Len(shIn) : shIn[k].cell = shCell
  /\ shOut # shIn

\* the dispatch has just chosen by shuffling
ChosenByShuffle ==
  /\ pc = "chosen"
  /\ ~UseBalancer(balancerEnabled, balancerKeyspaces, target)

Recorded(key) ==
  IF key \in DOMAIN statusAggregators THEN aggregators[statusAggregators[key]]
  ELSE NewTabletStatusAggregator
\* the attempts on the key whose updateStats has not yet updated the counters
Recording(key) == { r \in Recorders : rpc[r] \notin {"idle", "done"} /\ StatsKey(rtarget[r]) = key }

\* C14: every attempt, retried or not, is recorded exactly once on the
\* aggregator of its target: under any interleaving the counters of a key
\* are the attempts completed on it less those still being recorded, so once
\* N attempts are recorded QueryCount is N and QueryError the failed ones.
C14_StatsOncePerAttempt ==
  \A key \in DOMAIN completions :
    /\ Recorded(key).QueryCount + Cardinality(Recording(key)) = completions[key].n
    /\ Recorded(key).QueryError + Cardinality({ r \in Recording(key) : rerr[r] })
         = completions[key].failed
    /\ Recording(key) = {} =>
         /\ Recorded(key).QueryCount = completions[key].n
         /\ Recorded(key).QueryError = completions[key].failed

\* C14 witness: all the dispatches recorded an attempt on the same key, some
\* failed and some not, and the counters show it
C14_Witness ==
  \E key \in DOMAIN completions :
    /\ \A r \in Recorders : rpc[r] = "done" /\ StatsKey(rtarget[r]) = key
    /\ completions[key].n = MaxRecorders
    /\ completions[key].failed \in 1..(MaxRecorders - 1)
    /\ Recorded(key).QueryCount = MaxRecorders

\* shard sh is buffering within its window and its queue is full
QueueFull(sh) ==
  /\ bufMode[sh] = "buffering"
  /\ ~bufExpired[sh]
  /\ Len(bufQueue[sh]) = BufferSize

\* C15: no shard ever parks more than max_size requests; a request arriving
\* while the queue is full is not enqueued and is returned (nil, BufferFull).
C15_QueueBounded ==
  /\ [](\A sh \in BufferShards : Len(bufQueue[sh]) <= BufferSize)
  /\ [][\A w \in Waiters, sh \in BufferShards, prev \in PreviousErrors :
          (QueueFull(sh) /\ WaitForFailoverEnd(w, sh, prev))
            => /\ bufQueue' = bufQueue
               /\ wpc'[w] = "returned"
               /\ wout'[w] = [retryDone |-> FALSE, err |-> ErrBufferFull]]_vars

\* C15 witness: a request was turned away by a queue that is still full
C15_Witness ==
  /\ \E w \in Waiters : wpc[w] = "returned" /\ wout[w].err = ErrBufferFull
  /\ \E sh \in BufferShards : QueueFull(sh)

\* the mode changes of one failover episode
EpisodeSteps ==
  { << "passthrough", "buffering" >>, << "buffering", "draining" >>,
    << "draining", "passthrough" >> }

\* C16: the mode of a shard only moves passthrough -> buffering -> draining
\* -> passthrough, except that Shutdown moves any mode to passthrough.
C16_ModeMonotonic ==
  [][\A sh \in BufferShards :
       bufMode'[sh] # bufMode[sh]
         => \/ << bufMode[sh], bufMode'[sh] >> \in EpisodeSteps
            \/ (~bufShutdown /\ bufShutdown' /\ bufMode'[sh] = "passthrough")]_vars

\* C16 witness: an episode has run its course: a request was parked,
\* drained and has retried, and every shard is back in passthrough
C16_Witness ==
  /\ ~bufShutdown
  /\ \A sh \in BufferShards : bufMode[sh] = "passthrough"
  /\ \E w \in Waiters : wpc[w] = "returned" /\ wout[w].retryDone

\* what WaitForFailoverEnd returns at once outside a failover, and the four
\* ways the claim lets a wait end
Immediate == [retryDone |-> FALSE, err |-> NoErr]
FourOutcomes ==
  { [retryDone |-> TRUE, err |-> NoErr],
    [retryDone |-> FALSE, err |-> ErrBufferFull],
    [retryDone |-> FALSE, err |-> ErrWindowExpired],
    [retryDone |-> FALSE, err |-> ErrCanceled] }
\* a call that finds its shard outside a failover returns (nil, nil) at once
ReturnsAtOnce ==
  [][\A w \in Waiters, sh \in BufferShards, prev \in PreviousErrors :
       (WaitForFailoverEnd(w, sh, prev)
          /\ ModeAtCall(bufMode[sh], prev, bufShutdown) # "buffering")
         => (wpc'[w] = "returned" /\ wout'[w] = Immediate)]_vars
\* no request stays parked for ever: each request calls once, so in the end
\* none is parked any more
EveryWaitEnds == <>[](\A w \in Waiters : wpc[w] # "parked")
\* the calls that did not return (nil, nil)
Ended == { w \in Waiters : wpc[w] \in {"released", "returned"} /\ wout[w] # Immediate }

\* C17: outside a failover WaitForFailoverEnd returns (nil, nil) at once;
\* otherwise every parked request is eventually released, with one of
\* (retryDone, nil), (nil, BufferFull), (nil, WindowExpired), (nil, cancel error).
C17_Original ==
  /\ ReturnsAtOnce
  /\ EveryWaitEnds
  /\ [](\A w \in Ended : wout[w] \in FourOutcomes)

\* C17 amended: as above, with (nil, ShuttingDown) as a fifth way a wait
\* ends, when the buffer is shut down.
C17_WaitEndsFiveWays ==
  /\ ReturnsAtOnce
  /\ EveryWaitEnds
  /\ [](\A w \in Ended : wout[w] \in FourOutcomes \cup {ShutdownOutcome})
  /\ [][\A w \in Waiters :
          (wpc[w] = "parked" /\ wout'[w] = ShutdownOutcome) => (~bufShutdown /\ bufShutdown')]_vars

\* C17 witness: requests were parked and their waits ended in different
\* ways, one of them by the window deadline
C17_Witness ==
  \E w, v \in Waiters :
    /\ wpc[w] = "returned" /\ wout[w].err = ErrWindowExpired
    /\ wpc[v] = "returned" /\ wout[v].err \in {ErrCanceled, ErrShuttingDown}

\* the place of request w in queue q, 0 when it is not there
PlaceOf(q, w) == IF \E k \in 1..Len(q) : q[k] = w THEN CHOOSE k \in 1..Len(q) : q[k] = w ELSE 0

\* C18: within one shard the queue keeps the requests in the order they
\* arrived (a newcomer goes behind those waiting, and those waiting keep
\* their order) and a drain releases the request at the front.
C18_DrainInArrivalOrder ==
  [][\A sh \in BufferShards :
       /\ \A a, b \in Waiters :
            (PlaceOf(bufQueue'[sh], a) # 0 /\ PlaceOf(bufQueue'[sh], b) # 0
               /\ PlaceOf(bufQueue[sh], a) # 0)
              => ( (PlaceOf(bufQueue'[sh], a) < PlaceOf(bufQueue'[sh], b))
                    <=> ( PlaceOf(bufQueue[sh], b) = 0
                          \/ PlaceOf(bufQueue[sh], a) < PlaceOf(bufQueue[sh], b) ) )
                 \/ a = b
       /\ \A w \in Waiters :
            (wpc[w] = "parked" /\ wshard[w] = sh /\ wpc'[w] = "released")
              => PlaceOf(bufQueue[sh], w) = 1]_vars

\* C18 witness: of two requests parked in one shard, now draining, one has
\* been released and the other still waits
C18_Witness ==
  \E w, v \in Waiters :
    /\ wpc[w] = "released"
    /\ wpc[v] = "parked"
    /\ wshard[v] = wshard[w]
    /\ bufMode[wshard[w]] = "draining"

\* C19: Close shuts the buffer down, when there is one, before it closes the
\* health check; the shutdown puts every shard in passthrough and returns
\* ShuttingDown to every waiting request, so none is parked once Close has
\* shut the buffer down.
C19_CloseShutsBufferFirst ==
  /\ []((buffer /\ closePc # "open") => bufShutdown)
  /\ [][(closePc # "closed" /\ closePc' = "closed") => (closePc = "hc" /\ (buffer => bufShutdown))]_vars
  /\ [][(~bufShutdown /\ bufShutdown')
          => /\ closePc = "open"
             /\ \A sh \in BufferShards : bufMode'[sh] = "passthrough" /\ bufQueue'[sh] = << >>
             /\ \A w \in Waiters :
                  wpc[w] = "parked" => (wpc'[w] = "returned" /\ wout'[w].err = ErrShuttingDown
                                          /\ ~wout'[w].retryDone)]_vars
  /\ [](bufShutdown => \A w \in Waiters : wpc[w] # "parked")

\* C19 witness: Close has returned, and a request that was parked when it
\* began was returned ShuttingDown
C19_Witness ==
  /\ buffer
  /\ closePc = "closed"
  /\ \E w \in Waiters : wpc[w] = "returned" /\ wout[w].err = ErrShuttingDown

\* the dispatch is parked in the buffer
DispatchParked == pc = "waiting" /\ wpc[Dispatcher] = "parked"
\* the first iteration ended on the watcher's report of a resharding, and
\* the buffer has not released the dispatch before
AfterResharding ==
  /\ pc = "loop"
  /\ calls["iter"] = 1
  /\ err = ErrResharding
  /\ ~bufferedOnce
\* the buffer released the dispatch for a retry
Drained == [retryDone |-> TRUE, err |-> NoErr]

\* C20: a dispatch outside a transaction to a PRIMARY target, with buffering
\* and at least one retry: a first iteration that finds no healthy tablet
\* while the watcher reports a resharding leaves the error
\* CLUSTER_EVENT(resharding); the second iteration parks the call, the shard
\* being in failover within its window; once the consistent event has put
\* the shard to draining the call is released for a retry and goes on to
\* look for a tablet again; and when it then finds the new primary and inner
\* succeeds, the dispatch returns success.
C20_FailoverEndToEnd ==
  /\ [][(pc = "lookup" /\ calls["iter"] = 1
           /\ calls'["TargetIsBeingResharded"] # calls["TargetIsBeingResharded"]
           /\ calls'["ShouldStartBufferingForTarget"] = calls["ShouldStartBufferingForTarget"])
          => (err' = ErrResharding /\ Code(err') = "CLUSTER_EVENT" /\ pc' = "loop")]_vars
  /\ [][(AfterResharding /\ retryCount >= 1 /\ pc' # pc)
          => /\ pc' = "waiting"
             /\ ( wpc'[Dispatcher] = "parked"
                  \/ bufMode[ShardOf(target)] = "draining"
                  \/ bufExpired[ShardOf(target)] )]_vars
  /\ [][(DispatchParked /\ bufMode[ShardOf(target)] = "draining" /\ wpc'[Dispatcher] # "parked")
          => (wout'[Dispatcher] = Drained \/ wout'[Dispatcher].err = ErrCanceled)]_vars
  /\ [][(pc = "waiting" /\ pc' # "waiting" /\ wout[Dispatcher] = Drained)
          => /\ pc' = "lookup"
             /\ bufferedOnce'
             /\ i' = i /\ err' = err
             /\ LoopCond(i', retryCount)]_vars
  /\ DispatchParked ~> (pc # "waiting")
  /\ []((pc = "done" /\ lastBuffer.retryDone # 0 /\ lastBuffer.prev = ErrResharding
           /\ lastInner.called /\ lastInner.err = NoErr)
          => /\ result = NoErr
             /\ exit = "final"
             /\ rdInvoked = << lastBuffer.retryDone >>
             /\ wpc[Dispatcher] = "returned")

\* C20 witness: with one retry, the first iteration met the resharding, the
\* second was parked and drained, and the dispatch returned success from
\* the tablet it then found
C20_Witness ==
  /\ pc = "done"
  /\ retryCount = 1
  /\ calls["iter"] = 2
  /\ calls["WaitForFailoverEnd"] = 2
  /\ calls["TargetIsBeingResharded"] = 1
  /\ lastBuffer.retryDone = 2
  /\ lastBuffer.prev = ErrResharding
  /\ calls["inner"] = 1
  /\ lastInner.err = NoErr
  /\ result = NoErr

\* the dispatch has just found no healthy tablet, the watcher's answers being v
FoundNone(v) == pc = "lookup" /\ emptyLookup' = EmptyLookup(v)
\* the iteration ends and the next one may begin
Continues == pc' = "loop" /\ i' = i + 1 /\ exit' = exit
\* the loop ends in this iteration
Breaks == pc' = "return" /\ i' = i
AskedMore(op) == calls'[op] = calls[op] + 1
AskedNoMore(op) == calls'[op] = calls[op]

\* C24: a PRIMARY dispatch with a watcher that finds no healthy tablet asks
\* TargetIsBeingResharded first: when it answers true the error is
\* CLUSTER_EVENT(resharding) and the loop continues, and
\* ShouldStartBufferingForTarget is not asked in that iteration, whatever it
\* would answer.
C24_ReshardingFirst ==
  [][\A v \in WatcherViews :
       (FoundNone(v) /\ kev /\ target.TabletType = "PRIMARY" /\ v.resharding)
         => /\ err' = ErrResharding
            /\ Code(err') = "CLUSTER_EVENT"
            /\ Continues
            /\ AskedMore("TargetIsBeingResharded")
            /\ AskedNoMore("ShouldStartBufferingForTarget")]_vars

\* C24 witness: the target is being resharded and the watcher would also
\* have said to buffer; it was not asked
C24_Witness ==
  /\ pc = "loop"
  /\ emptyLookup.empty
  /\ emptyLookup.view.resharding
  /\ emptyLookup.view.shouldBuffer
  /\ err = ErrResharding
  /\ calls["TargetIsBeingResharded"] = 1
  /\ calls["ShouldStartBufferingForTarget"] = 0

\* C25: a PRIMARY dispatch that finds no healthy tablet, the target not
\* being resharded: when the watcher says to buffer the error is
\* CLUSTER_EVENT(reparent) and the loop continues; else when the watcher sees
\* a primary the error is UNAVAILABLE(inconsistent state) and the loop
\* continues; else, and when there is no watcher, the error is
\* UNAVAILABLE(no healthy tablet) and the loop ends.
C25_EmptyPrimaryLookup ==
  /\ [][\A v \in WatcherViews :
          (FoundNone(v) /\ target.TabletType = "PRIMARY" /\ ~(kev /\ v.resharding))
            => IF kev /\ v.shouldBuffer
               THEN err' = ErrReparent /\ Code(err') = "CLUSTER_EVENT" /\ Continues
               ELSE IF kev /\ v.primary
               THEN err' = ErrInconsistent /\ Code(err') = "UNAVAILABLE" /\ Continues
               ELSE /\ err' = ErrNoHealthyTablet(target)
                    /\ Code(err') = "UNAVAILABLE"
                    /\ Breaks
                    /\ exit' = "notablet"]_vars
  /\ [][exit = "notablet" => (AskedNoMore("iter") /\ err' = err)]_vars

\* C25 witness: no resharding, no reason to buffer, yet the watcher sees a
\* primary: the inconsistent state, after which the loop goes on
C25_Witness ==
  /\ pc = "loop"
  /\ target.TabletType = "PRIMARY"
  /\ emptyLookup.empty
  /\ emptyLookup.view = [resharding |-> FALSE, shouldBuffer |-> FALSE, primary |-> TRUE]
  /\ err = ErrInconsistent
  /\ i = 1

\* every iteration so far looked for tablets, found none, and had a
\* resharding or a reparenting for the reason
OnlyClusterEvents ==
  /\ allClusterEvent
  /\ calls["GetHealthyTabletStats"] = calls["iter"]

\* C26: a PRIMARY dispatch whose every iteration finds no healthy tablet
\* while the watcher reports a resharding or a reparenting, and which the
\* buffer never holds back and releases, calls inner never, runs exactly
\* retryCount+1 iterations and returns a CLUSTER_EVENT error.
C26_ClusterEventExhausted ==
  /\ (OnlyClusterEvents /\ rdReturned = {}) => calls["inner"] = 0
  /\ ( /\ pc = "done"
       /\ exit # "preflight"
       /\ retryCount >= 0
       /\ target.TabletType = "PRIMARY"
       /\ OnlyClusterEvents
       /\ rdReturned = {} )
     => /\ exit = "exhausted"
        /\ calls["iter"] = retryCount + 1
        /\ calls["inner"] = 0
        /\ Code(result) = "CLUSTER_EVENT"
        /\ result \in { Decorated(ErrResharding, target), Decorated(ErrReparent, target) }

\* C26 witness: with buffering and the most retries, outside a transaction,
\* the buffer let every iteration through and every lookup met a cluster event
C26_Witness ==
  /\ pc = "done"
  /\ retryCount = MaxRetryCount
  /\ ~inTransaction
  /\ OnlyClusterEvents
  /\ calls["iter"] = retryCount + 1
  /\ calls["WaitForFailoverEnd"] = retryCount + 1
  /\ calls["inner"] = 0
  /\ Code(result) = "CLUSTER_EVENT"

\* C27: a dispatch to a target that is not PRIMARY never calls
\* WaitForFailoverEnd and never asks the watcher; when it finds no healthy
\* tablet it ends the loop in that iteration with UNAVAILABLE, whatever the
\* watcher would answer, and no iteration follows.
C27_NonPrimaryFailsFast ==
  /\ []((Started /\ target.TabletType # "PRIMARY")
          => /\ calls["WaitForFailoverEnd"] = 0
             /\ calls["TargetIsBeingResharded"] = 0
             /\ calls["ShouldStartBufferingForTarget"] = 0)
  /\ [][\A v \in WatcherViews :
          (FoundNone(v) /\ target.TabletType # "PRIMARY")
            => /\ err' = ErrNoHealthyTablet(target)
               /\ Code(err') = "UNAVAILABLE"
               /\ Breaks
               /\ exit' = "notablet"]_vars
  /\ []((target.TabletType # "PRIMARY" /\ exit = "notablet")
          => /\ pc \in {"return", "done"}
             /\ pc = "done" => (Code(result) = "UNAVAILABLE"
                                  /\ result = Decorated(ErrNoHealthyTablet(target), target)))

\* C27 witness: a REPLICA dispatch found no healthy tablet at its first
\* lookup and is about to return, the watcher, had it been asked, reporting
\* a resharding
C27_Witness ==
  /\ pc = "return"
  /\ target.TabletType = "REPLICA"
  /\ kev
  /\ emptyLookup.empty
  /\ emptyLookup.view.resharding
  /\ calls["iter"] = 1
  /\ retryCount >= 1
  /\ Code(err) = "UNAVAILABLE"

\* t is the first tablet of list sh whose alias is not in the invalid-set
IsFirstValid(sh, invalid, t) ==
  \E k \in 1..Len(sh) :
    /\ sh[k] = t
    /\ t.alias \notin invalid
    /\ \A m \in 1..(k - 1) : sh[m].alias \in invalid

\* C28: when the tablets are shuffled, the tablet chosen is the first one
\* of a shuffle of the healthy tablets just returned that is not in the
\* invalid-set, and none is chosen only when all of them are in it; so inner
\* is never called on a tablet marked invalid in this dispatch, whatever the
\* health check returns from one iteration to the next.
C28_ShuffleSkipsInvalid ==
  /\ [](ChosenByShuffle
          => /\ (th = NoTablet) <=> (healthy \subseteq invalidTablets)
             /\ th # NoTablet
                  => /\ th.alias \in healthy \ invalidTablets
                     /\ \E C \in SUBSET healthy :
                          \E sh \in shuffleTablets(localCell, SnapshotOf(healthy, C)) :
                            IsFirstValid(sh, invalidTablets, th))
  /\ []((pc \in {"collation", "inner"} /\ calls["shuffleTablets"] > 0)
          => th.alias \notin invalidTablets)
  /\ [][(AskedMore("inner") /\ calls["shuffleTablets"] > 0)
          => /\ th.alias \notin invalidTablets
             /\ attempts[th.alias] = 0
             /\ lastInner'.alias = th.alias]_vars

\* C28 witness: a tablet tried before is healthy again in this iteration's
\* list, and the shuffle chose another one
C28_Witness ==
  /\ ChosenByShuffle
  /\ th # NoTablet
  /\ healthy \cap invalidTablets # {}
  /\ \E a \in healthy \cap invalidTablets : attempts[a] = 1
  /\ th.alias \notin invalidTablets

\* the balancer is enabled, for every keyspace or for the target's
BalancerApplies ==
  balancerEnabled /\ (balancerKeyspaces = {} \/ target.Keyspace \in balancerKeyspaces)

\* C29: in every iteration that selects, Pick is called and the shuffler is
\* not exactly when the balancer is enabled and its keyspace list is empty
\* or holds the target's keyspace, and otherwise the shuffler is called and
\* Pick is not; what Pick returns is a healthy tablet not in the invalid-set,
\* and it is the tablet used, from whatever cell it is.
C29_BalancerOrShuffle ==
  /\ [][(pc = "lookup" /\ pc' = "chosen")
          => IF BalancerApplies
             THEN AskedMore("Pick") /\ AskedNoMore("shuffleTablets")
             ELSE AskedNoMore("Pick") /\ AskedMore("shuffleTablets")]_vars
  /\ [](calls["Pick"] > 0 => (BalancerApplies /\ calls["shuffleTablets"] = 0))
  /\ [](calls["shuffleTablets"] > 0 => (~BalancerApplies /\ calls["Pick"] = 0))
  /\ []((pc = "chosen" /\ BalancerApplies /\ th # NoTablet)
          => th.alias \in healthy \ invalidTablets)
  /\ [][(pc = "chosen" /\ BalancerApplies /\ AskedMore("updateDefaultConnCollation"))
          => (th' = th /\ th.conn)]_vars
  /\ [][(BalancerApplies /\ AskedMore("inner")) => lastInner'.alias = th.alias]_vars

\* C29 witness: the balancer, enabled for the target's keyspace only, picked
\* a tablet of another cell although a local one had not been tried
C29_Witness ==
  /\ pc = "chosen"
  /\ balancerEnabled
  /\ balancerKeyspaces = {target.Keyspace}
  /\ th # NoTablet
  /\ th.cell # localCell
  /\ localHealthy \ invalidTablets # {}

\* C30: when no tablet is chosen the loop ends in that iteration; the error
\* left by the iteration before is kept, and VT14002 is the error only when
\* there was none, which is in the first iteration.
C30_NoCandidateKeepsError ==
  /\ [][(pc = "chosen" /\ th = NoTablet /\ pc' # pc)
          => /\ Breaks
             /\ exit' = "nocandidate"
             /\ err' = (IF err = NoErr THEN VT14002 ELSE err)
             /\ calls' = calls]_vars
  /\ [](exit = "nocandidate"
          => /\ pc \in {"return", "done"}
             /\ err # NoErr
             /\ err = VT14002 => (calls["iter"] = 1 /\ invalidTablets = {})
             /\ calls["iter"] > 1 => err # VT14002
             /\ pc = "done" => result = Decorated(err, target))
  /\ [][exit = "nocandidate" => (err' = err /\ AskedNoMore("iter"))]_vars

\* C30 witness: every healthy tablet had been tried, retries were left, and
\* the dispatch returned the error of its last attempt
C30_Witness ==
  /\ pc = "done"
  /\ exit = "nocandidate"
  /\ LoopCond(i, retryCount)
  /\ lastInner.called
  /\ lastInner.canRetry
  /\ invalidTablets # {}
  /\ result = Decorated(lastInner.err, target)

\* C21: whenever the call of WaitForTablets that ended its waiting ended
\* with the deadline error, WaitForTablets warns and returns nil; any other
\* error it returns unchanged, and after an error no further call is made.
\* So it never returns the deadline error.
C21_TimeoutNotFatal ==
  /\ [](wtPc = "done"
          => /\ wtLast = DeadlineExceeded => (wtResult = NoErr /\ wtWarned)
             /\ wtLast # DeadlineExceeded => (wtResult = wtLast /\ ~wtWarned)
             /\ wtResult # DeadlineExceeded)
  /\ [][wtLast # NoErr => wtCalled' = wtCalled]_vars
  /\ []((wtPc \in {"deferred", "done"} /\ tabletTypesToWait = {}) => wtCalled = {})

\* C21 witness: the tablets served in time, the wait for consistent keyspaces
\* ran into the deadline, and WaitForTablets returned nil with a warning
C21_Witness ==
  /\ wtPc = "done"
  /\ "WaitForConsistentKeyspaces" \in wtCalled
  /\ wtLast = DeadlineExceeded
  /\ wtWarned
  /\ wtResult = NoErr

\* C22: the goroutine that hands the keyspace events to the buffer is ended
\* by Close: once Close has returned no event is handed to
\* buffer.HandleKeyspaceEvent any more.
C22_Original == closePc = "closed" => ~handledAfterClose

\* the request has been returned the cancel error
Cancelled(w) == wpc[w] = "returned" /\ wout[w] = [retryDone |-> FALSE, err |-> ErrCanceled]

\* C23: the cancellation of a parked request returns it the cancel error
\* with no retryDone and takes it out of the queue of its shard in the same
\* step: that queue gets shorter by exactly this request, the others keep
\* their places in order, and no later drain releases the request.
C23_CancelLeavesQueue ==
  /\ [][\A w \in Waiters :
          (wpc[w] = "parked" /\ wout'[w].err = ErrCanceled)
            => /\ Cancelled(w)'
               /\ Len(bufQueue'[wshard[w]]) = Len(bufQueue[wshard[w]]) - 1
               /\ PlaceOf(bufQueue[wshard[w]], w) # 0
               /\ PlaceOf(bufQueue'[wshard[w]], w) = 0
               /\ \A v \in Waiters \ {w} :
                    PlaceOf(bufQueue'[wshard[w]], v)
                      = ( IF PlaceOf(bufQueue[wshard[w]], v) > PlaceOf(bufQueue[wshard[w]], w)
                          THEN PlaceOf(bufQueue[wshard[w]], v) - 1
                          ELSE PlaceOf(bufQueue[wshard[w]], v) )
               /\ \A sh \in BufferShards \ {wshard[w]} : bufQueue'[sh] = bufQueue[sh]]_vars
  /\ [](\A w \in Waiters :
          Cancelled(w) => \A sh \in BufferShards : PlaceOf(bufQueue[sh], w) = 0)
  /\ [][\A w \in Waiters : Cancelled(w) => Cancelled(w)']_vars

\* C23 witness: a parked request was cancelled, and a drain has released
\* another request
C23_Witness ==
  \E w, v \in Waiters :
    /\ Cancelled(w)
    /\ wpc[v] = "released"

\* the chosen tablet has no connection and the dispatch takes its step
NoConnection == pc = "chosen" /\ th # NoTablet /\ ~th.conn /\ pc' # pc

\* C31: when the chosen tablet has no connection its alias is marked invalid,
\* the error becomes VT14003 for that tablet and the loop continues with the
\* next iteration; in that iteration inner is not called, no statistics are
\* recorded and the default collation is not touched.
C31_NoConnectionSkipsAttempt ==
  /\ [][NoConnection
          => /\ invalidTablets' = invalidTablets \cup {th.alias}
             /\ err' = VT14003(th.alias)
             /\ Code(err') = "UNAVAILABLE"
             /\ Continues
             /\ AskedNoMore("inner")
             /\ AskedNoMore("updateStats")
             /\ AskedNoMore("updateDefaultConnCollation")
             /\ attempts' = attempts
             /\ lastInner' = lastInner
             /\ statusAggregators' = statusAggregators
             /\ aggregators' = aggregators
             /\ defaultConnCollation' = defaultConnCollation
             /\ warnings' = warnings]_vars
  /\ [](\A a \in Aliases :
          (pc = "loop" /\ err = VT14003(a)) => (a \in invalidTablets /\ attempts[a] = 0))

\* C31 witness: a first attempt could be retried, the tablet chosen next had
\* no connection, and the dispatch is about to start its third iteration
C31_Witness ==
  /\ pc = "loop"
  /\ th # NoTablet
  /\ err = VT14003(th.alias)
  /\ th.alias \in invalidTablets
  /\ i = 2
  /\ calls["iter"] = 2
  /\ calls["inner"] = 1
  /\ calls["updateStats"] = 1
  /\ attempts[th.alias] = 0

\* inner returns to the dispatch
InnerReturns == pc = "inner" /\ pc' # pc

\* C32: after an inner call that signals canRetry exactly the attempted
\* tablet is marked invalid and the loop continues; after one that does not
\* the loop ends, nothing more is attempted, and the dispatch returns
\* inner's error decorated with the target, nil when inner returned none.
\* So after one retryable failure and a success the dispatch returns nil
\* and the invalid-set has one member.
C32_RetryDisposition ==
  /\ [][InnerReturns
          => /\ lastInner'.called
             /\ lastInner'.alias = th.alias
             /\ err' = lastInner'.err
             /\ AskedMore("inner")
             /\ IF lastInner'.canRetry
                THEN /\ th.alias \notin invalidTablets
                     /\ invalidTablets' = invalidTablets \cup {th.alias}
                     /\ Continues
                ELSE /\ invalidTablets' = invalidTablets
                     /\ Breaks
                     /\ exit' = "final"]_vars
  /\ [][exit = "final"
          => /\ AskedNoMore("inner")
             /\ AskedNoMore("iter")
             /\ err' = err
             /\ invalidTablets' = invalidTablets]_vars
  /\ [](exit = "final"
          => /\ pc \in {"return", "done"}
             /\ ~lastInner.canRetry
             /\ err = lastInner.err
             /\ pc = "done"
                  => result = (IF lastInner.err = NoErr THEN NoErr
                               ELSE Decorated(lastInner.err, target)))
  /\ []((pc = "done" /\ exit = "final" /\ calls["iter"] = 2 /\ calls["inner"] = 2
           /\ lastInner.err = NoErr)
          => (result = NoErr /\ Cardinality(invalidTablets) = 1))

\* C32 witness: two REPLICA candidates, the first attempt failed and could be
\* retried, the second succeeded, and the dispatch returned nil
C32_Witness ==
  /\ pc = "done"
  /\ exit = "final"
  /\ target.TabletType = "REPLICA"
  /\ calls["iter"] = 2
  /\ calls["inner"] = 2
  /\ Cardinality(Tried) = 2
  /\ lastInner.err = NoErr
  /\ result = NoErr
  /\ Cardinality(invalidTablets) = 1
  /\ lastInner.alias \notin invalidTablets

\* the dispatches that have obtained the aggregator of the key
Obtained(key) ==
  { r \in Recorders : rpc[r] \in {"update", "done"} /\ StatsKey(rtarget[r]) = key }
\* CacheStatus returns
CacheStatusReturns == csPc = "read" /\ csPc' = "idle"

\* C33: under any interleaving of dispatches and CacheStatus calls the map
\* holds one aggregator per key and no aggregator was made beside those it
\* holds; the dispatches that observe a key, at the same time or not, get
\* the same aggregator; an entry of the map is never removed or replaced;
\* and the list CacheStatus returns has exactly one entry for each
\* aggregator made so far.
C33_OneAggregatorPerKey ==
  /\ [](/\ Cardinality(DOMAIN statusAggregators) = Len(aggregators)
        /\ Held(statusAggregators) = 1..Len(aggregators)
        /\ \A key \in DOMAIN completions :
             \A r \in Obtained(key) :
               /\ key \in DOMAIN statusAggregators
               /\ raggr[r] = statusAggregators[key]
               /\ \A q \in Obtained(key) : raggr[q] = raggr[r])
  /\ [][/\ Len(aggregators') >= Len(aggregators)
        /\ \A key \in DOMAIN statusAggregators :
             /\ key \in DOMAIN statusAggregators'
             /\ statusAggregators'[key] = statusAggregators[key]]_vars
  /\ [][CacheStatusReturns
          => /\ Len(csRes') = Len(aggregators)
             /\ \A a \in 1..Len(aggregators) :
                  Cardinality({ n \in 1..Len(csRes') : csRes'[n] = a }) = 1]_vars

\* C33 witness: two dispatches observed the same new key at the same time
\* and hold the one aggregator made for it; CacheStatus has returned that
\* aggregator alone and, called again, holds gw.mu
C33_Witness ==
  /\ \A r \in Dispatches : rpc[r] = "update"
  /\ \A r, q \in Dispatches : rtarget[r] = rtarget[q] /\ raggr[r] = raggr[q]
  /\ Len(aggregators) = 1
  /\ Len(csRes) = 1
  /\ csPc = "read"

\* the dispatches suspended in a call that can block
Suspended == { r \in Recorders : rpc[r] \in SuspensionPoints }
\* the step by which the holder of gw.mu gives it up; it waits for nothing
Releases ==
  \/ \E r \in Recorders : mu = r /\ (RecorderLookup(r) \/ RecorderCreate(r))
  \/ mu = Reader /\ CacheStatusRead

\* C34: gw.mu is held by a dispatch only between the lookup and the
\* insertion of getStatsAggregator, and by CacheStatus only while it builds
\* its list: never by a dispatch that is in inner, in WaitForFailoverEnd or
\* in the lookup of the health check.  Whoever holds it can give it up
\* without waiting for anyone, so a suspended dispatch keeps nobody from
\* taking it.
C34_NoLockAcrossSuspension ==
  /\ \A r \in Recorders : (mu = r) <=> (rpc[r] \in {"lookup", "create"})
  /\ (mu = Reader) <=> (csPc = "read")
  /\ mu \in {0, Reader} \cup Recorders
  /\ \A r \in Suspended : mu # r
  /\ mu # 0 => ENABLED Releases
  /\ (mu = 0 /\ csPc = "idle") => ENABLED CacheStatusLock
  /\ \A r \in Recorders : (mu = 0 /\ rpc[r] = "lock") => ENABLED RecorderLock(r)

\* C34 witness: while one dispatch is suspended in inner, another has
\* recorded its attempt and CacheStatus has returned the aggregator
C34_Witness ==
  \E r, q \in Dispatches :
    /\ rpc[r] = "inner"
    /\ rpc[q] = "done"
    /\ mu = 0
    /\ csPc = "idle"
    /\ Len(csRes) = 1

\* WaitForTablets makes the call named op in this step
BarrierCalls(op) == op \in wtCalled' /\ op \notin wtCalled

\* C35: with no tablet type to wait for WaitForTablets returns nil and calls
\* neither the topology server nor the health check.  Otherwise it waits
\* for the serving tablets of the targets it found before anything else,
\* and it calls WaitForConsistentKeyspaces only after that wait returned no
\* error, only when PRIMARY is among the types and only when there is a
\* watcher.
C35_WaitOrder ==
  /\ []((wtPc \in {"deferred", "done"} /\ tabletTypesToWait = {}) => wtCalled = {})
  /\ []((wtPc = "done" /\ tabletTypesToWait = {}) => (wtResult = NoErr /\ ~wtWarned))
  /\ []("WaitForConsistentKeyspaces" \in wtCalled
          => /\ "WaitForAllServingTablets" \in wtCalled
             /\ "PRIMARY" \in tabletTypesToWait
             /\ kev)
  /\ []("WaitForAllServingTablets" \in wtCalled
          => (tabletTypesToWait # {} /\ "FindAllTargetsAndKeyspaces" \in wtCalled))
  /\ [][BarrierCalls("WaitForConsistentKeyspaces")
          => /\ wtPc = "consistent"
             /\ "WaitForAllServingTablets" \in wtCalled
             /\ wtLast = NoErr
             /\ wtErr = NoErr]_vars
  /\ [][BarrierCalls("WaitForAllServingTablets")
          => /\ wtCalled = {"FindAllTargetsAndKeyspaces"}
             /\ wtLast = NoErr
             /\ IF wtLast' = NoErr /\ "PRIMARY" \in tabletTypesToWait /\ kev
                THEN wtPc' = "consistent"
                ELSE wtPc' = "deferred" /\ wtErr' = wtLast']_vars
  /\ []((wtPc = "done" /\ tabletTypesToWait # {})
          => /\ "FindAllTargetsAndKeyspaces" \in wtCalled
             /\ "WaitForAllServingTablets" \notin wtCalled => wtLast # NoErr)

\* C35 witness: PRIMARY was among the types, there is a watcher, the serving
\* tablets were waited for without error and then the keyspaces
C35_Witness ==
  /\ wtPc = "done"
  /\ kev
  /\ tabletTypesToWait = {"PRIMARY", "REPLICA"}
  /\ wtCalled = {"FindAllTargetsAndKeyspaces", "WaitForAllServingTablets",
                 "WaitForConsistentKeyspaces"}
  /\ wtResult = NoErr
  /\ ~wtWarned

\* the error the iteration before left, as the dispatch's record of that
\* iteration tells it: none before the first iteration; the cluster event
\* or the inconsistency of an empty lookup; the error of the attempt; or the
\* missing connection of the tablet chosen
LeftByLast ==
  IF i = 0 THEN NoErr
  ELSE IF emptyLookup.empty
  THEN (IF emptyLookup.view.resharding THEN ErrResharding
        ELSE IF emptyLookup.view.shouldBuffer THEN ErrReparent
        ELSE ErrInconsistent)
  ELSE IF lastInner.called /\ lastInner.alias = th.alias THEN lastInner.err
  ELSE VT14003(th.alias)
\* the dispatch calls WaitForFailoverEnd; WaitForFailoverEnd returns to it
AsksBuffer == pc = "loop" /\ pc' = "waiting"
BufferAnswers == pc = "waiting" /\ pc' # pc

\* C36: at the top of the loop err is the error the iteration before left,
\* nil in the first iteration, and that is the error WaitForFailoverEnd is
\* called with: the buffer decides on it whether the shard is in a failover
\* and the call parks.
C36_BufferSeesLastError ==
  /\ [](pc = "loop" => err = LeftByLast)
  /\ []((pc = "loop" /\ calls["iter"] = 0) => err = NoErr)
  /\ [][AsksBuffer
          => /\ err' = err
             /\ AskedMore("WaitForFailoverEnd")
             /\ bufMode'[ShardOf(target)]
                  = ModeAtCall(bufMode[ShardOf(target)], LeftByLast, bufShutdown)
             /\ (bufMode[ShardOf(target)] = "passthrough" /\ wpc'[Dispatcher] = "parked")
                  => IsFailoverError(LeftByLast)]_vars
  /\ [][pc = "waiting" => (err' = err \/ pc' # pc)]_vars
  /\ [][BufferAnswers
          => /\ lastBuffer'.called
             /\ lastBuffer'.prev = err
             /\ lastBuffer'.err # NoErr => err' = WrapBufferErr(lastBuffer'.err, err)]_vars

\* C36 witness: the first iteration found no primary and left the reparent
\* error; in the second the buffer, called with that error, parked the call
C36_Witness ==
  /\ DispatchParked
  /\ i = 1
  /\ calls["WaitForFailoverEnd"] = 2
  /\ calls["inner"] = 0
  /\ err = ErrReparent
  /\ bufMode[ShardOf(target)] = "buffering"

\* the ends of a dispatch that come before any use of a connection in the
\* iteration: a pre-flight check, an error of the buffer, no healthy tablet,
\* no candidate
EndsWithoutQuery == { "preflight", "buffer", "notablet", "nocandidate" }

\* C37: with retryCount >= 0 a dispatch returns nil only when inner was
\* invoked and its last invocation returned nil; a dispatch that never
\* invoked inner, and one that ended in a pre-flight check, an error of the
\* buffer, an empty lookup or for want of a candidate, returns an error.
C37_NilOnlyAfterSuccess ==
  (pc = "done" /\ retryCount >= 0)
    => /\ result = NoErr
            => /\ lastInner.called
               /\ calls["inner"] >= 1
               /\ lastInner.err = NoErr
               /\ exit = "final"
       /\ calls["inner"] = 0 => result # NoErr
       /\ ~lastInner.called => result # NoErr
       /\ exit \in EndsWithoutQuery => result # NoErr

\* C37 witness: an iteration met a tablet without connection, a later one
\* ran the query with success, and the dispatch returned nil
C37_Witness ==
  /\ pc = "done"
  /\ retryCount >= 0
  /\ result = NoErr
  /\ lastInner.called
  /\ lastInner.err = NoErr
  /\ calls["inner"] = 1
  /\ calls["iter"] = 2
  /\ invalidTablets # {}

\* the health check returns no tablet to the dispatch
EmptySnapshot == pc = "lookup" /\ emptyLookup'.empty

\* C38: the gateway has a keyspace event watcher exactly when it has a
\* buffer.  So without buffering a PRIMARY dispatch that finds no healthy
\* tablet asks no watcher and ends in that iteration, the first when its
\* first lookup is empty, with the UNAVAILABLE error; it never has or
\* returns a CLUSTER_EVENT error.
C38_WatcherIffBuffer ==
  /\ [](kev <=> buffer)
  /\ [][(~buffer /\ target.TabletType = "PRIMARY" /\ EmptySnapshot)
          => /\ Breaks
             /\ exit' = "notablet"
             /\ err' = ErrNoHealthyTablet(target)
             /\ Code(err') = "UNAVAILABLE"
             /\ AskedNoMore("TargetIsBeingResharded")
             /\ AskedNoMore("ShouldStartBufferingForTarget")]_vars
  /\ [](~buffer
          => /\ Code(err) # "CLUSTER_EVENT"
             /\ Code(result) # "CLUSTER_EVENT"
             /\ calls["WaitForFailoverEnd"] = 0
             /\ calls["TargetIsBeingResharded"] = 0
             /\ calls["ShouldStartBufferingForTarget"] = 0)
  /\ []((~buffer /\ pc = "done" /\ exit = "notablet")
          => /\ Code(result) = "UNAVAILABLE"
             /\ result = Decorated(ErrNoHealthyTablet(target), target)
             /\ calls["GetHealthyTabletStats"] = 1 => calls["iter"] = 1)

\* C38 witness: without buffering a PRIMARY dispatch found no healthy tablet
\* at its first lookup and returned the UNAVAILABLE error, retries being left
C38_Witness ==
  /\ ~buffer
  /\ ~kev
  /\ pc = "done"
  /\ target.TabletType = "PRIMARY"
  /\ retryCount >= 1
  /\ exit = "notablet"
  /\ calls["iter"] = 1
  /\ calls["GetHealthyTabletStats"] = 1
  /\ Code(result) = "UNAVAILABLE"

====
